---- MODULE Spec2Model ----
(***************************************************************************)
(* A model of the neutron command-line client.                             *)
(*                                                                         *)
(*   Spec        the shell: main -> NeutronShell.run -> initialize_app ->  *)
(*               run_subcommand -> run_command (shell.py)                  *)
(*   SpecInit    NeutronShell.__init__: the dispatch table, the extension  *)
(*               registration and the removal of 'complete' (shell.py)     *)
(*   SpecRouter  the router commands of neutron/v2_0/router.py             *)
(*                                                                         *)
(* Python strings are TLA+ strings where only equality is needed, and      *)
(* sequences of symbols where the code takes them apart (INTERFACE).       *)
(***************************************************************************)
EXTENDS Integers, Sequences, FiniteSets, TLC

\* ---------------------------------------------------------------- bounds
\* Longest argument vector handed to main.
MaxArgs == 3
\* Most extension classes installed.
MaxExtensions == 2
\* Longest INTERFACE argument, in symbols.
MaxInterfaceLen == 3
\* Most --fixed-ip options of one router-gateway-set.
MaxFixedIps == 2
\* Most --availability-zone-hint options of one router-create.
MaxAzHints == 1
\* Most --route options of one router-update.
MaxRoutes == 2
\* Largest retry count the client manager of a router command was given.
MaxRetries == 1

\* ------------------------------------------------------ program constants
\* NeutronShell.DEBUG_LEVEL
DEBUG_LEVEL == 2
\* cliff's App.DEFAULT_VERBOSE_LEVEL, the default of -v/--verbose/--debug
DEFAULT_VERBOSE_LEVEL == 1
\* the status argparse's error() exits with (SystemExit(2))
ARGPARSE_ERROR_STATUS == 2
\* the status HelpAction exits with: sys.exit(0)
HELP_EXIT_STATUS == 0
\* main: return 130 on KeyboardInterrupt
INTERRUPT_STATUS == 130
\* main, run, run_subcommand: return 1 on an error
ERROR_STATUS == 1
\* run: return 0 after _bash_completion
COMPLETION_STATUS == 0

VERSION == "2.0"
NEUTRON_API_VERSION == "2.0"

\* Python's None where the other values are strings
None == "None"

\* An integer or None (a return value, an exit status): <<n>> or <<>>
NoInt == <<>>
IntV(n) == <<n>>

\* ------------------------------------------------------- dispatch table
\* The items of the dict literal COMMAND_V2, in source order.
COMMAND_V2_ITEMS == <<
    <<"bash-completion", "BashCompletionCommand">>,
    <<"net-list", "network.ListNetwork">>,
    <<"net-external-list", "network.ListExternalNetwork">>,
    <<"net-show", "network.ShowNetwork">>,
    <<"net-create", "network.CreateNetwork">>,
    <<"net-delete", "network.DeleteNetwork">>,
    <<"net-update", "network.UpdateNetwork">>,
    <<"subnet-list", "subnet.ListSubnet">>,
    <<"subnet-show", "subnet.ShowSubnet">>,
    <<"subnet-create", "subnet.CreateSubnet">>,
    <<"subnet-delete", "subnet.DeleteSubnet">>,
    <<"subnet-update", "subnet.UpdateSubnet">>,
    <<"subnetpool-list", "subnetpool.ListSubnetPool">>,
    <<"subnetpool-show", "subnetpool.ShowSubnetPool">>,
    <<"subnetpool-create", "subnetpool.CreateSubnetPool">>,
    <<"subnetpool-delete", "subnetpool.DeleteSubnetPool">>,
    <<"subnetpool-update", "subnetpool.UpdateSubnetPool">>,
    <<"port-list", "port.ListPort">>,
    <<"port-show", "port.ShowPort">>,
    <<"port-create", "port.CreatePort">>,
    <<"port-delete", "port.DeletePort">>,
    <<"port-update", "port.UpdatePort">>,
    <<"quota-list", "quota.ListQuota">>,
    <<"quota-show", "quota.ShowQuota">>,
    <<"quota-delete", "quota.DeleteQuota">>,
    <<"quota-update", "quota.UpdateQuota">>,
    <<"ext-list", "extension.ListExt">>,
    <<"ext-show", "extension.ShowExt">>,
    <<"router-list", "router.ListRouter">>,
    <<"router-port-list", "port.ListRouterPort">>,
    <<"router-show", "router.ShowRouter">>,
    <<"router-create", "router.CreateRouter">>,
    <<"router-delete", "router.DeleteRouter">>,
    <<"router-update", "router.UpdateRouter">>,
    <<"router-interface-add", "router.AddInterfaceRouter">>,
    <<"router-interface-delete", "router.RemoveInterfaceRouter">>,
    <<"router-gateway-set", "router.SetGatewayRouter">>,
    <<"router-gateway-clear", "router.RemoveGatewayRouter">>,
    <<"floatingip-list", "floatingip.ListFloatingIP">>,
    <<"floatingip-show", "floatingip.ShowFloatingIP">>,
    <<"floatingip-create", "floatingip.CreateFloatingIP">>,
    <<"floatingip-delete", "floatingip.DeleteFloatingIP">>,
    <<"floatingip-associate", "floatingip.AssociateFloatingIP">>,
    <<"floatingip-disassociate", "floatingip.DisassociateFloatingIP">>,
    <<"security-group-list", "securitygroup.ListSecurityGroup">>,
    <<"security-group-show", "securitygroup.ShowSecurityGroup">>,
    <<"security-group-create", "securitygroup.CreateSecurityGroup">>,
    <<"security-group-delete", "securitygroup.DeleteSecurityGroup">>,
    <<"security-group-update", "securitygroup.UpdateSecurityGroup">>,
    <<"security-group-rule-list", "securitygroup.ListSecurityGroupRule">>,
    <<"security-group-rule-show", "securitygroup.ShowSecurityGroupRule">>,
    <<"security-group-rule-create", "securitygroup.CreateSecurityGroupRule">>,
    <<"security-group-rule-delete", "securitygroup.DeleteSecurityGroupRule">>,
    <<"lbaas-loadbalancer-list", "lbaas_loadbalancer.ListLoadBalancer">>,
    <<"lbaas-loadbalancer-show", "lbaas_loadbalancer.ShowLoadBalancer">>,
    <<"lbaas-loadbalancer-create", "lbaas_loadbalancer.CreateLoadBalancer">>,
    <<"lbaas-loadbalancer-update", "lbaas_loadbalancer.UpdateLoadBalancer">>,
    <<"lbaas-loadbalancer-delete", "lbaas_loadbalancer.DeleteLoadBalancer">>,
    <<"lbaas-loadbalancer-stats", "lbaas_loadbalancer.RetrieveLoadBalancerStats">>,
    <<"lbaas-loadbalancer-status", "lbaas_loadbalancer.RetrieveLoadBalancerStatus">>,
    <<"lbaas-listener-list", "lbaas_listener.ListListener">>,
    <<"lbaas-listener-show", "lbaas_listener.ShowListener">>,
    <<"lbaas-listener-create", "lbaas_listener.CreateListener">>,
    <<"lbaas-listener-update", "lbaas_listener.UpdateListener">>,
    <<"lbaas-listener-delete", "lbaas_listener.DeleteListener">>,
    <<"lbaas-pool-list", "lbaas_pool.ListPool">>,
    <<"lbaas-pool-show", "lbaas_pool.ShowPool">>,
    <<"lbaas-pool-create", "lbaas_pool.CreatePool">>,
    <<"lbaas-pool-update", "lbaas_pool.UpdatePool">>,
    <<"lbaas-pool-delete", "lbaas_pool.DeletePool">>,
    <<"lbaas-healthmonitor-list", "lbaas_healthmon.ListHealthMonitor">>,
    <<"lbaas-healthmonitor-show", "lbaas_healthmon.ShowHealthMonitor">>,
    <<"lbaas-healthmonitor-create", "lbaas_healthmon.CreateHealthMonitor">>,
    <<"lbaas-healthmonitor-update", "lbaas_healthmon.UpdateHealthMonitor">>,
    <<"lbaas-healthmonitor-delete", "lbaas_healthmon.DeleteHealthMonitor">>,
    <<"lbaas-member-list", "lbaas_member.ListMember">>,
    <<"lbaas-member-show", "lbaas_member.ShowMember">>,
    <<"lbaas-member-create", "lbaas_member.CreateMember">>,
    <<"lbaas-member-update", "lbaas_member.UpdateMember">>,
    <<"lbaas-member-delete", "lbaas_member.DeleteMember">>,
    <<"lb-vip-list", "lb_vip.ListVip">>,
    <<"lb-vip-show", "lb_vip.ShowVip">>,
    <<"lb-vip-create", "lb_vip.CreateVip">>,
    <<"lb-vip-update", "lb_vip.UpdateVip">>,
    <<"lb-vip-delete", "lb_vip.DeleteVip">>,
    <<"lb-pool-list", "lb_pool.ListPool">>,
    <<"lb-pool-show", "lb_pool.ShowPool">>,
    <<"lb-pool-create", "lb_pool.CreatePool">>,
    <<"lb-pool-update", "lb_pool.UpdatePool">>,
    <<"lb-pool-delete", "lb_pool.DeletePool">>,
    <<"lb-pool-stats", "lb_pool.RetrievePoolStats">>,
    <<"lb-member-list", "lb_member.ListMember">>,
    <<"lb-member-show", "lb_member.ShowMember">>,
    <<"lb-member-create", "lb_member.CreateMember">>,
    <<"lb-member-update", "lb_member.UpdateMember">>,
    <<"lb-member-delete", "lb_member.DeleteMember">>,
    <<"lb-healthmonitor-list", "lb_healthmonitor.ListHealthMonitor">>,
    <<"lb-healthmonitor-show", "lb_healthmonitor.ShowHealthMonitor">>,
    <<"lb-healthmonitor-create", "lb_healthmonitor.CreateHealthMonitor">>,
    <<"lb-healthmonitor-update", "lb_healthmonitor.UpdateHealthMonitor">>,
    <<"lb-healthmonitor-delete", "lb_healthmonitor.DeleteHealthMonitor">>,
    <<"lb-healthmonitor-associate", "lb_healthmonitor.AssociateHealthMonitor">>,
    <<"lb-healthmonitor-disassociate", "lb_healthmonitor.DisassociateHealthMonitor">>,
    <<"queue-create", "qos_queue.CreateQoSQueue">>,
    <<"queue-delete", "qos_queue.DeleteQoSQueue">>,
    <<"queue-show", "qos_queue.ShowQoSQueue">>,
    <<"queue-list", "qos_queue.ListQoSQueue">>,
    <<"agent-list", "agent.ListAgent">>,
    <<"agent-show", "agent.ShowAgent">>,
    <<"agent-delete", "agent.DeleteAgent">>,
    <<"agent-update", "agent.UpdateAgent">>,
    <<"net-gateway-create", "networkgateway.CreateNetworkGateway">>,
    <<"net-gateway-update", "networkgateway.UpdateNetworkGateway">>,
    <<"net-gateway-delete", "networkgateway.DeleteNetworkGateway">>,
    <<"net-gateway-show", "networkgateway.ShowNetworkGateway">>,
    <<"net-gateway-list", "networkgateway.ListNetworkGateway">>,
    <<"net-gateway-connect", "networkgateway.ConnectNetworkGateway">>,
    <<"net-gateway-disconnect", "networkgateway.DisconnectNetworkGateway">>,
    <<"gateway-device-create", "networkgateway.CreateGatewayDevice">>,
    <<"gateway-device-update", "networkgateway.UpdateGatewayDevice">>,
    <<"gateway-device-delete", "networkgateway.DeleteGatewayDevice">>,
    <<"gateway-device-show", "networkgateway.ShowGatewayDevice">>,
    <<"gateway-device-list", "networkgateway.ListGatewayDevice">>,
    <<"dhcp-agent-network-add", "agentscheduler.AddNetworkToDhcpAgent">>,
    <<"dhcp-agent-network-remove", "agentscheduler.RemoveNetworkFromDhcpAgent">>,
    <<"net-list-on-dhcp-agent", "agentscheduler.ListNetworksOnDhcpAgent">>,
    <<"dhcp-agent-list-hosting-net", "agentscheduler.ListDhcpAgentsHostingNetwork">>,
    <<"l3-agent-router-add", "agentscheduler.AddRouterToL3Agent">>,
    <<"l3-agent-router-remove", "agentscheduler.RemoveRouterFromL3Agent">>,
    <<"router-list-on-l3-agent", "agentscheduler.ListRoutersOnL3Agent">>,
    <<"l3-agent-list-hosting-router", "agentscheduler.ListL3AgentsHostingRouter">>,
    <<"lb-pool-list-on-agent", "agentscheduler.ListPoolsOnLbaasAgent">>,
    <<"lb-agent-hosting-pool", "agentscheduler.GetLbaasAgentHostingPool">>,
    <<"lbaas-loadbalancer-list-on-agent", "agentscheduler.ListLoadBalancersOnLbaasAgent">>,
    <<"lbaas-agent-hosting-loadbalancer", "agentscheduler.GetLbaasAgentHostingLoadBalancer">>,
    <<"service-provider-list", "servicetype.ListServiceProvider">>,
    <<"firewall-rule-list", "firewallrule.ListFirewallRule">>,
    <<"firewall-rule-show", "firewallrule.ShowFirewallRule">>,
    <<"firewall-rule-create", "firewallrule.CreateFirewallRule">>,
    <<"firewall-rule-update", "firewallrule.UpdateFirewallRule">>,
    <<"firewall-rule-delete", "firewallrule.DeleteFirewallRule">>,
    <<"firewall-policy-list", "firewallpolicy.ListFirewallPolicy">>,
    <<"firewall-policy-show", "firewallpolicy.ShowFirewallPolicy">>,
    <<"firewall-policy-create", "firewallpolicy.CreateFirewallPolicy">>,
    <<"firewall-policy-update", "firewallpolicy.UpdateFirewallPolicy">>,
    <<"firewall-policy-delete", "firewallpolicy.DeleteFirewallPolicy">>,
    <<"firewall-policy-insert-rule", "firewallpolicy.FirewallPolicyInsertRule">>,
    <<"firewall-policy-remove-rule", "firewallpolicy.FirewallPolicyRemoveRule">>,
    <<"firewall-list", "firewall.ListFirewall">>,
    <<"firewall-show", "firewall.ShowFirewall">>,
    <<"firewall-create", "firewall.CreateFirewall">>,
    <<"firewall-update", "firewall.UpdateFirewall">>,
    <<"firewall-delete", "firewall.DeleteFirewall">>,
    <<"ipsec-site-connection-list", "ipsec_site_connection.ListIPsecSiteConnection">>,
    <<"ipsec-site-connection-show", "ipsec_site_connection.ShowIPsecSiteConnection">>,
    <<"ipsec-site-connection-create", "ipsec_site_connection.CreateIPsecSiteConnection">>,
    <<"ipsec-site-connection-update", "ipsec_site_connection.UpdateIPsecSiteConnection">>,
    <<"ipsec-site-connection-delete", "ipsec_site_connection.DeleteIPsecSiteConnection">>,
    <<"vpn-endpoint-group-list", "endpoint_group.ListEndpointGroup">>,
    <<"vpn-endpoint-group-show", "endpoint_group.ShowEndpointGroup">>,
    <<"vpn-endpoint-group-create", "endpoint_group.CreateEndpointGroup">>,
    <<"vpn-endpoint-group-update", "endpoint_group.UpdateEndpointGroup">>,
    <<"vpn-endpoint-group-delete", "endpoint_group.DeleteEndpointGroup">>,
    <<"vpn-service-list", "vpnservice.ListVPNService">>,
    <<"vpn-service-show", "vpnservice.ShowVPNService">>,
    <<"vpn-service-create", "vpnservice.CreateVPNService">>,
    <<"vpn-service-update", "vpnservice.UpdateVPNService">>,
    <<"vpn-service-delete", "vpnservice.DeleteVPNService">>,
    <<"vpn-ipsecpolicy-list", "ipsecpolicy.ListIPsecPolicy">>,
    <<"vpn-ipsecpolicy-show", "ipsecpolicy.ShowIPsecPolicy">>,
    <<"vpn-ipsecpolicy-create", "ipsecpolicy.CreateIPsecPolicy">>,
    <<"vpn-ipsecpolicy-update", "ipsecpolicy.UpdateIPsecPolicy">>,
    <<"vpn-ipsecpolicy-delete", "ipsecpolicy.DeleteIPsecPolicy">>,
    <<"vpn-ikepolicy-list", "ikepolicy.ListIKEPolicy">>,
    <<"vpn-ikepolicy-show", "ikepolicy.ShowIKEPolicy">>,
    <<"vpn-ikepolicy-create", "ikepolicy.CreateIKEPolicy">>,
    <<"vpn-ikepolicy-update", "ikepolicy.UpdateIKEPolicy">>,
    <<"vpn-ikepolicy-delete", "ikepolicy.DeleteIKEPolicy">>,
    <<"meter-label-create", "metering.CreateMeteringLabel">>,
    <<"meter-label-list", "metering.ListMeteringLabel">>,
    <<"meter-label-show", "metering.ShowMeteringLabel">>,
    <<"meter-label-delete", "metering.DeleteMeteringLabel">>,
    <<"meter-label-rule-create", "metering.CreateMeteringLabelRule">>,
    <<"meter-label-rule-list", "metering.ListMeteringLabelRule">>,
    <<"meter-label-rule-show", "metering.ShowMeteringLabelRule">>,
    <<"meter-label-rule-delete", "metering.DeleteMeteringLabelRule">>,
    <<"rbac-create", "rbac.CreateRBACPolicy">>,
    <<"rbac-update", "rbac.UpdateRBACPolicy">>,
    <<"rbac-list", "rbac.ListRBACPolicy">>,
    <<"rbac-show", "rbac.ShowRBACPolicy">>,
    <<"rbac-delete", "rbac.DeleteRBACPolicy">>,
    <<"address-scope-list", "address_scope.ListAddressScope">>,
    <<"address-scope-show", "address_scope.ShowAddressScope">>,
    <<"address-scope-create", "address_scope.CreateAddressScope">>,
    <<"address-scope-delete", "address_scope.DeleteAddressScope">>,
    <<"address-scope-update", "address_scope.UpdateAddressScope">>,
    <<"qos-policy-list", "qos_policy.ListQoSPolicy">>,
    <<"qos-policy-show", "qos_policy.ShowQoSPolicy">>,
    <<"qos-policy-create", "qos_policy.CreateQoSPolicy">>,
    <<"qos-policy-update", "qos_policy.UpdateQoSPolicy">>,
    <<"qos-policy-delete", "qos_policy.DeleteQoSPolicy">>,
    <<"qos-bandwidth-limit-rule-create", "bandwidth_limit_rule.CreateQoSBandwidthLimitRule">>,
    <<"qos-bandwidth-limit-rule-show", "bandwidth_limit_rule.ShowQoSBandwidthLimitRule">>,
    <<"qos-bandwidth-limit-rule-list", "bandwidth_limit_rule.ListQoSBandwidthLimitRules">>,
    <<"qos-bandwidth-limit-rule-update", "bandwidth_limit_rule.UpdateQoSBandwidthLimitRule">>,
    <<"qos-bandwidth-limit-rule-delete", "bandwidth_limit_rule.DeleteQoSBandwidthLimitRule">>,
    <<"qos-available-rule-types", "qos_rule.ListQoSRuleTypes">>,
    <<"flavor-list", "flavor.ListFlavor">>,
    <<"flavor-show", "flavor.ShowFlavor">>,
    <<"flavor-create", "flavor.CreateFlavor">>,
    <<"flavor-delete", "flavor.DeleteFlavor">>,
    <<"flavor-update", "flavor.UpdateFlavor">>,
    <<"flavor-associate", "flavor.AssociateFlavor">>,
    <<"flavor-disassociate", "flavor.DisassociateFlavor">>,
    <<"flavor-profile-list", "flavor_profile.ListFlavorProfile">>,
    <<"flavor-profile-show", "flavor_profile.ShowFlavorProfile">>,
    <<"flavor-profile-create", "flavor_profile.CreateFlavorProfile">>,
    <<"flavor-profile-delete", "flavor_profile.DeleteFlavorProfile">>,
    <<"flavor-profile-update", "flavor_profile.UpdateFlavorProfile">>,
    <<"availability-zone-list", "availability_zone.ListAvailabilityZone">>,
    <<"auto-allocated-topology-show", "auto_allocated_topology.ShowAutoAllocatedTopology">>,
    <<"bgp-dragent-speaker-add", "bgp_drsched.AddBGPSpeakerToDRAgent">>,
    <<"bgp-dragent-speaker-remove", "bgp_drsched.RemoveBGPSpeakerFromDRAgent">>,
    <<"bgp-speaker-list-on-dragent", "bgp_drsched.ListBGPSpeakersOnDRAgent">>,
    <<"bgp-dragent-list-hosting-speaker", "bgp_drsched.ListDRAgentsHostingBGPSpeaker">>,
    <<"bgp-speaker-list", "bgp_speaker.ListSpeakers">>,
    <<"bgp-speaker-advertiseroute-list", "bgp_speaker.ListRoutesAdvertisedBySpeaker">>,
    <<"bgp-speaker-show", "bgp_speaker.ShowSpeaker">>,
    <<"bgp-speaker-create", "bgp_speaker.CreateSpeaker">>,
    <<"bgp-speaker-update", "bgp_speaker.UpdateSpeaker">>,
    <<"bgp-speaker-delete", "bgp_speaker.DeleteSpeaker">>,
    <<"bgp-speaker-peer-add", "bgp_speaker.AddPeerToSpeaker">>,
    <<"bgp-speaker-peer-remove", "bgp_speaker.RemovePeerFromSpeaker">>,
    <<"bgp-speaker-network-add", "bgp_speaker.AddNetworkToSpeaker">>,
    <<"bgp-speaker-network-remove", "bgp_speaker.RemoveNetworkFromSpeaker">>,
    <<"bgp-peer-list", "bgp_peer.ListPeers">>,
    <<"bgp-peer-show", "bgp_peer.ShowPeer">>,
    <<"bgp-peer-create", "bgp_peer.CreatePeer">>,
    <<"bgp-peer-update", "bgp_peer.UpdatePeer">>,
    <<"bgp-peer-delete", "bgp_peer.DeletePeer">>
>>

\* A Python dict built from a sequence of (key, value) items: a later item
\* with the same key replaces the earlier one.
DictOf(items) ==
    [k \in {items[i][1] : i \in DOMAIN items} |->
        LET last == CHOOSE i \in DOMAIN items :
                        /\ items[i][1] = k
                        /\ \A j \in DOMAIN items : items[j][1] = k => j <= i
        IN  items[last][2]]

COMMAND_V2 == DictOf(COMMAND_V2_ITEMS)

COMMANDS == [v \in {"2.0"} |-> COMMAND_V2]

\* d[k] = v of a Python dict
DictSet(d, k, v) == [x \in DOMAIN d \cup {k} |-> IF x = k THEN v ELSE d[x]]

\* d.pop(k) of a Python dict that holds k
DictPop(d, k) == [x \in DOMAIN d \ {k} |-> d[x]]

\* The two dicts of the shell are kept in the state as their difference from
\* the table they start from: the items set since, and the keys popped since.
NoChange == [set |-> <<>>, del |-> {}]
ChangeSet(ch, k, v) == [set |-> DictSet(ch.set, k, v), del |-> ch.del \ {k}]
ChangePop(ch, k) ==
    [set |-> DictPop(ch.set, k), del |-> ch.del \cup {k}]
\* The dict itself.
Changed(base, ch) ==
    [x \in (DOMAIN base \cup DOMAIN ch.set) \ ch.del |->
        IF x \in DOMAIN ch.set THEN ch.set[x] ELSE base[x]]

\* The commands cliff's App.__init__ puts in the command manager before
\* NeutronShell.__init__ adds its own.
CLIFF_COMMANDS == DictOf(<< <<"help", "cliff.help.HelpCommand">>,
                            <<"complete", "cliff.complete.CompleteCommand">> >>)


\* ------------------------------------------------------------ variables
VARIABLES
    \* NeutronShell
    commands,          \* self.commands[VERSION], as its changes
    command_manager,   \* self.command_manager.commands, as its changes
    api_version,       \* self.api_version, the key of self.commands
    argv0,             \* the argument vector main was called with
    argv,              \* run's local argv
    options,           \* self.options, None before the global parse
    remainder,         \* what the global parser did not recognise
    interactive_mode,  \* self.interactive_mode
    cmd_name,          \* the command find_command located, None before
    sub_argv,          \* the located command's own arguments
    exc,               \* the exception in flight, or NoException
    ret,               \* the value run / main returns
    exit_code,         \* the status the process ends with, NoInt before
    \* NeutronShell.__init__ (SpecInit)
    extensions,        \* the extension classes still to be looked at
    registered,        \* the classes _extend_shell_commands took, in order
    \* the router commands (SpecRouter)
    rcmd,              \* the command whose run is executing
    parsed_args,       \* the Namespace its parser produced
    locals,            \* run's local variables
    calls,             \* the resolver and API calls made so far, in order
    \* the application objects run_command and authenticate_user set
    client_manager,    \* self.client_manager, as the retries it was given
    values_specs,      \* cmd.values_specs
    \* the global options (SpecEnv) and the formatter (SpecFormat)
    environ,           \* os.environ
    parser,            \* self.parser, as the arguments added to it
    router_info,       \* the router handed to a formatter
    \* shared by the specifications
    pc,                \* the position in the code
    trace,             \* what was called so far, in order
    stdout,            \* what was written to standard output
    stderr             \* what was written to standard error

shellVars == <<commands, command_manager, api_version, argv0, argv, options,
               remainder, interactive_mode, cmd_name, sub_argv, exc, ret,
               exit_code>>
initVars == <<extensions, registered>>
routerVars == <<rcmd, parsed_args, locals, calls>>
appVars == <<client_manager, values_specs, environ, parser,
             router_info>>
ioVars == <<pc, trace, stdout, stderr>>
vars == <<shellVars, initVars, routerVars, appVars, ioVars>>

Event(e, a) == [ev |-> e, arg |-> a]
Happened(e, a) == \E i \in DOMAIN trace : trace[i] = Event(e, a)
Occurred(e) == \E i \in DOMAIN trace : trace[i].ev = e

\* --------------------------------------------------------- exceptions
SystemExit(code) == [kind |-> "SystemExit", code |-> IntV(code)]
Raise(kind) == [kind |-> kind, code |-> NoInt]
NoException == Raise(None)

\* A clause that catches KeyboardInterrupt as well.
IsException_Interrupt(e) == e.kind # "SystemExit"

\* The classes that derive from Exception: an `except Exception` clause
\* catches these, and neither KeyboardInterrupt nor SystemExit.
IsException(e) == e.kind \notin {"KeyboardInterrupt", "SystemExit"}

\* clientmanager.ClientManager(retries=..., ...): the retry count the API
\* client works with; there is none before authenticate_user.
ClientManager(retries) == [retries |-> IntV(retries)]
NoClient == [retries |-> NoInt]

\* -------------------------------------------------- NeutronShell.__init__
\* `for k, v in table.items(): command_manager.add_command(k, v)`
AddCommands(cm, table) ==
    [x \in DOMAIN cm \cup DOMAIN table |->
        IF x \in DOMAIN table THEN table[x] ELSE cm[x]]

\* The command manager after the loop over self.commands[apiversion] in
\* __init__.
ManagerBase == AddCommands(CLIFF_COMMANDS, COMMANDS[NEUTRON_API_VERSION])

\* self.commands[version], self.command_manager.commands
CommandTable(ch, version) == Changed(COMMANDS[version], ch)
ManagerTable(ch) == Changed(ManagerBase, ch)

\* _extend_shell_commands: is the class taken as a shell command?
IsShellExtension(cls, version) ==
    /\ cls.is_extension
    /\ cls.has_shell_command
    /\ cls.has_versions => version \in cls.versions

\* The body of the loop of _extend_shell_commands for one class: the new
\* [commands, command_manager]. A TypeError on the way leaves both as they
\* were.
ExtendShellCommands(sh, cls, version) ==
    IF IsShellExtension(cls, version) /\ ~cls.raises_type_error
    THEN [commands |-> ChangeSet(sh.commands, cls.shell_command, cls.name),
          command_manager |->
              ChangeSet(sh.command_manager, cls.shell_command, cls.name)]
    ELSE sh

\* __init__ up to the registration of the extensions
ShellBeforeExtensions == [commands |-> NoChange, command_manager |-> NoChange]

RECURSIVE RegisterExtensions(_, _, _)
RegisterExtensions(sh, classes, version) ==
    IF classes = <<>> THEN sh
    ELSE RegisterExtensions(ExtendShellCommands(sh, Head(classes), version),
                            Tail(classes), version)

\* self.command_manager.commands.pop('complete')
PopComplete(sh) ==
    [sh EXCEPT !.command_manager = ChangePop(sh.command_manager, "complete")]

\* NeutronShell(apiversion) with the given extension classes installed
NeutronShellInit(classes) ==
    PopComplete(RegisterExtensions(ShellBeforeExtensions, classes, VERSION))

\* ------------------------------------------------------ NeutronShell.run
\* The arguments main is called with.
Tokens == {"help", "-h", "-v", "bash-completion", "router-gateway-clear",
           "myrouter"}

RECURSIVE SeqsUpTo(_, _)
SeqsUpTo(S, n) ==
    IF n = 0 THEN {<<>>}
    ELSE LET shorter == SeqsUpTo(S, n - 1)
         IN  shorter \cup {Append(s, x) : s \in shorter, x \in S}

ArgVectors == SeqsUpTo(Tokens, MaxArgs)

ScanStart == [command_pos |-> -1, help_pos |-> -1, help_command_pos |-> -1,
              completion |-> FALSE]

\* A test that also wants no -h/--help before the argument.
IsCompletion_NoHelpOption(arg, st) ==
    arg = "bash-completion" /\ st.help_command_pos = -1 /\ st.help_pos = -1

\* if arg == 'bash-completion' and help_command_pos == -1:
IsCompletion(arg, st) ==
    arg = "bash-completion" /\ st.help_command_pos = -1

\* The for loop of run over argv, from 0-based position index on: the three
\* positions, and whether the loop left through _bash_completion.
RECURSIVE ScanArgs(_, _, _, _)
ScanArgs(av, table, index, st) ==
    IF index >= Len(av) THEN st
    ELSE LET arg == av[index + 1] IN
         IF IsCompletion(arg, st)
         THEN [st EXCEPT !.completion = TRUE]
         ELSE ScanArgs(av, table, index + 1,
                IF arg \in DOMAIN table
                THEN IF st.command_pos = -1
                     THEN [st EXCEPT !.command_pos = index] ELSE st
                ELSE IF arg \in {"-h", "--help"}
                THEN IF st.help_pos = -1
                     THEN [st EXCEPT !.help_pos = index] ELSE st
                ELSE IF arg = "help"
                THEN IF st.help_command_pos = -1
                     THEN [st EXCEPT !.help_command_pos = index] ELSE st
                ELSE st)

\* A rewrite that takes a -h/--help before the subcommand as well.
RewriteArgv_AnyHelp(av, st) ==
    LET a1 == IF st.command_pos > -1 /\ st.help_pos > -1
              THEN <<"help", av[st.command_pos + 1]>>
              ELSE av
    IN  IF st.help_command_pos > -1 /\ st.command_pos = -1
        THEN [a1 EXCEPT ![st.help_command_pos + 1] = "--help"]
        ELSE a1

\* The two rewrites of argv that follow the loop.
RewriteArgv(av, st) ==
    LET a1 == IF st.command_pos > -1 /\ st.help_pos > st.command_pos
              THEN <<"help", av[st.command_pos + 1]>>
              ELSE av
    IN  IF st.help_command_pos > -1 /\ st.command_pos = -1
        THEN [a1 EXCEPT ![st.help_command_pos + 1] = "--help"]
        ELSE a1

\* The defaults of build_option_parser: verbose_level, and retries 0.
DefaultOptions == [verbose_level |-> DEFAULT_VERBOSE_LEVEL, retries |-> 0]

\* The argument strings that argparse takes for option strings: they start
\* with '-' and are no negative number.
OptionLike == {"-h", "--help", "-v", "--verbose", "--debug", "-q", "--quiet",
               "-r", "--retries", "--", "--foo"}

\* Python's int() of an argument string: the integer it spells, or
\* ValueError.
IntLiterals == ("0" :> 0) @@ ("2" :> 2) @@ ("-1" :> -1)
PyInt(value) ==
    IF value \in DOMAIN IntLiterals
    THEN [raised |-> None, value |-> IntLiterals[value]]
    ELSE [raised |-> "ValueError", value |-> 0]

\* A type function that takes every integer.
check_non_negative_int_AnyInt(value) ==
    IF PyInt(value).raised = "ValueError"
    THEN [raised |-> "ArgumentTypeError", value |-> 0]
    ELSE [raised |-> None, value |-> PyInt(value).value]

\* check_non_negative_int: the converted value, or ArgumentTypeError
check_non_negative_int(value) ==
    IF PyInt(value).raised = "ValueError"
    THEN [raised |-> "ArgumentTypeError", value |-> 0]
    ELSE IF PyInt(value).value < 0
    THEN [raised |-> "ArgumentTypeError", value |-> 0]
    ELSE [raised |-> None, value |-> PyInt(value).value]

\* self.parser.parse_known_args(argv) of the parser build_option_parser
\* makes, from 1-based position i on: -v/--verbose/--debug count, -q/--quiet
\* stores 0, -h/--help runs HelpAction (sys.exit(0)), -r/--retries takes
\* the next argument through check_non_negative_int, and argparse's error()
\* ends the parse when there is none or the type function raises; anything
\* else is left in the remainder, and so is all from a '--' on.
RECURSIVE ParseGlobal(_, _, _, _)
ParseGlobal(av, i, opts, rem) ==
    IF i > Len(av) THEN [kind |-> "ok", options |-> opts, remainder |-> rem]
    ELSE LET arg == av[i] IN
         IF arg \in {"-h", "--help"}
         THEN [kind |-> "exit", code |-> HELP_EXIT_STATUS]
         ELSE IF arg \in {"-v", "--verbose", "--debug"}
         THEN ParseGlobal(av, i + 1,
                [opts EXCEPT !.verbose_level = opts.verbose_level + 1], rem)
         ELSE IF arg \in {"-q", "--quiet"}
         THEN ParseGlobal(av, i + 1, [opts EXCEPT !.verbose_level = 0], rem)
         ELSE IF arg \in {"-r", "--retries"}
         THEN IF i = Len(av) \/ av[i + 1] \in OptionLike
              THEN [kind |-> "error", code |-> ARGPARSE_ERROR_STATUS]
              ELSE LET r == check_non_negative_int(av[i + 1]) IN
                   IF r.raised # None
                   THEN [kind |-> "error", code |-> ARGPARSE_ERROR_STATUS]
                   ELSE ParseGlobal(av, i + 2,
                                    [opts EXCEPT !.retries = r.value], rem)
         ELSE IF arg = "--"
         THEN [kind |-> "ok", options |-> opts,
               remainder |-> rem \o SubSeq(av, i, Len(av))]
         ELSE ParseGlobal(av, i + 1, opts, Append(rem, arg))

\* command_manager.find_command(argv) for one-word command names: the
\* class, the name and the arguments after it, or ValueError.
FindCommand(cm, av) ==
    IF av # <<>> /\ av[1] \in DOMAIN cm
    THEN [found |-> TRUE, factory |-> cm[av[1]], name |-> av[1],
          sub_argv |-> Tail(av)]
    ELSE [found |-> FALSE]

\* A shell that authenticates only for the interactive loop.
NeedsAuth_InteractiveOnly(interactive, name) == interactive

\* A shell that does not authenticate for the interactive loop.
NeedsAuth_NotInteractive(interactive, name) == ~interactive /\ name # "help"

\* initialize_app: `if self.interactive_mode or cmd_name != 'help'`
NeedsAuth(interactive, name) == interactive \/ name # "help"

\* A clause that re-raises only above the debug level.
Reraises_AboveDebug(opts) == opts.verbose_level > DEBUG_LEVEL

\* The `except Exception` clause of run and of run_subcommand: does it
\* re-raise?
Reraises(opts) == opts.verbose_level >= DEBUG_LEVEL

\* A run that logs the error and reports success.
RunErrorReturn_Success == ERROR_STATUS - 1

\* What the `except Exception` clause of run returns when it does not raise.
RunErrorReturn == ERROR_STATUS

\* What run_subcommand returns after logging the error.
SubcommandErrorReturn == ERROR_STATUS

\* The number of positional arguments the command's parser requires.
RequiredPositionals(name) ==
    CASE name = "router-gateway-clear" -> 1
      [] name \in {"router-interface-add", "router-interface-delete"} -> 2
      [] name = "router-gateway-set" -> 2
      [] name = "router-create" -> 1
      [] name = "subnet-create" -> 1
      [] OTHER -> 0

\* cmd_parser.parse_known_args(_argv): argparse's error() when a required
\* positional argument is missing.
ParserRejects(name, args) == Len(args) < RequiredPositionals(name)

\* The number of positional arguments the command's parser takes when
\* they are there: the CIDR of subnet-create, any number for help.
OptionalPositionals(name, args) ==
    CASE name = "subnet-create" -> 1
      [] name = "help" -> Len(args)
      [] OTHER -> 0

\* cmd_parser.parse_known_args(_argv), from the 1-based position i on:
\* an option string the parser does not know goes to the unrecognised
\* list; the other arguments fill the required positionals (need), then
\* the optional ones (opt), and go to the unrecognised list after that.
\* argparse settles the optional positionals with the run of arguments
\* that fills the last required one, so after that run (run is TRUE
\* inside it) none is open any more.
RECURSIVE ConsumeArgs(_, _, _, _, _, _, _)
ConsumeArgs(args, i, need, opt, run, known, extras) ==
    IF i > Len(args) THEN [known |-> known, extras |-> extras]
    ELSE IF args[i] \in OptionLike
    THEN ConsumeArgs(args, i + 1, need,
                     IF run /\ need = 0 THEN 0 ELSE opt, FALSE,
                     known, Append(extras, args[i]))
    ELSE IF need > 0
    THEN ConsumeArgs(args, i + 1, need - 1, opt, TRUE,
                     Append(known, args[i]), extras)
    ELSE IF opt > 0
    THEN ConsumeArgs(args, i + 1, need, opt - 1, TRUE,
                     Append(known, args[i]), extras)
    ELSE ConsumeArgs(args, i + 1, need, opt, TRUE,
                     known, Append(extras, args[i]))

\* known_args, _values_specs = cmd_parser.parse_known_args(_argv); cidr is
\* the optional positional of subnet-create, None when it was not filled.
CmdParseKnownArgs(name, _argv) ==
    LET c == ConsumeArgs(_argv, 1, RequiredPositionals(name),
                         OptionalPositionals(name, _argv), FALSE, <<>>, <<>>)
    IN  [rejected |-> ParserRejects(name,
                        SelectSeq(_argv, LAMBDA a : a \notin OptionLike)),
         known_args |-> [args |-> c.known,
                         cidr |-> IF name = "subnet-create" /\ Len(c.known) > 1
                                  THEN c.known[2] ELSE None],
         _values_specs |-> c.extras]

\* utils.is_valid_cidr
is_valid_cidr(value) == value \in {"10.0.0.0/24"}

\* A search that finds no CIDR.
get_first_valid_cidr_None(value_specs) == None

\* get_first_valid_cidr: the first value that is a valid CIDR, or None
get_first_valid_cidr(value_specs) ==
    LET hits == {i \in DOMAIN value_specs : is_valid_cidr(value_specs[i])} IN
    IF hits = {} THEN None
    ELSE value_specs[CHOOSE i \in hits : \A j \in hits : i <= j]

\* A removal that drops the head of the list.
ListRemove_Head(list, value) == Tail(list)

\* list.remove(value): the list without the first value equal to it
ListRemove(list, value) ==
    LET i == CHOOSE k \in DOMAIN list :
                 list[k] = value /\ \A j \in 1..(k - 1) : list[j] # value
    IN  SubSeq(list, 1, i - 1) \o SubSeq(list, i + 1, Len(list))

\* run_command up to cmd.run: the split of sub_argv at the first '--', the
\* parse of what is before it, the CIDR of subnet-create taken from the
\* unrecognised arguments, and cmd.values_specs.
run_command(name, sargv) ==
    LET dashes == {i \in DOMAIN sargv : sargv[i] = "--"}
        index == IF dashes = {} THEN -1
                 ELSE (CHOOSE i \in dashes : \A j \in dashes : i <= j) - 1
        _argv == IF index = -1 THEN sargv ELSE SubSeq(sargv, 1, index)
        vs == IF index = -1 THEN <<>>
              ELSE SubSeq(sargv, index + 1, Len(sargv))
        p == CmdParseKnownArgs(name, _argv)
        cidr == IF name = "subnet-create" /\ p.known_args.cidr = None
                THEN get_first_valid_cidr(p._values_specs) ELSE None
        known_args == IF cidr # None
                      THEN [p.known_args EXCEPT !.cidr = cidr]
                      ELSE p.known_args
        _vs == IF cidr # None THEN ListRemove(p._values_specs, cidr)
               ELSE p._values_specs
    IN  [rejected |-> p.rejected, _argv |-> _argv, known_args |-> known_args,
         _values_specs |-> _vs,
         values_specs |-> IF index = -1 /\ _vs # <<>> THEN _vs ELSE vs]

\* The line run_subcommand prints on SystemExit.
UsageHint(name) == Event("Try 'neutron help %s' for more information.", name)

\* A run_subcommand that re-raises without the hint.
SubcommandOnSystemExit_NoHint(err, name) == err

SubcommandOnSystemExit(err, name) == Append(err, UsageHint(name))

\* What cmd.run returns: the router action commands override run and
\* return nothing; cliff's Command.run returns take_action() or 0.
CmdRunReturn(name) ==
    IF name \in {"router-gateway-clear", "router-gateway-set",
                 "router-interface-add", "router-interface-delete"}
    THEN NoInt ELSE IntV(0)

\* How cmd.run can end: help does no network I/O.
CmdOutcomes(name) ==
    IF name = "help" THEN {"return"}
    ELSE {"return", "NeutronClientException", "Exception",
          "KeyboardInterrupt"}

\* A main without the KeyboardInterrupt clause.
MainCatch_NoInterruptClause(e) == ERROR_STATUS

\* main's except clauses: the value main returns for a caught exception.
MainCatch(e) ==
    CASE e.kind = "KeyboardInterrupt" -> INTERRUPT_STATUS
      [] e.kind = "NeutronClientException" -> ERROR_STATUS
      [] OTHER -> ERROR_STATUS

\* sys.exit(main(...)): the status for a returned value; None is success.
ProcessStatus(r) == IF r = NoInt THEN IntV(0) ELSE r


\* ================================================================ Spec
\* main(argv): NeutronShell(NEUTRON_API_VERSION) is built, with no extension
\* installed, and run is about to be called with one of the given argument
\* vectors.
InitWith(vectors) ==
    LET sh == NeutronShellInit(<<>>) IN
    /\ commands = sh.commands
    /\ command_manager = sh.command_manager
    /\ api_version = NEUTRON_API_VERSION
    /\ argv0 \in vectors
    /\ argv = argv0
    /\ options = None
    /\ remainder = <<>>
    /\ interactive_mode = FALSE
    /\ cmd_name = None
    /\ sub_argv = <<>>
    /\ exc = NoException
    /\ ret = NoInt
    /\ exit_code = NoInt
    /\ extensions = <<>>
    /\ registered = <<>>
    /\ rcmd = None
    /\ parsed_args = <<>>
    /\ locals = <<>>
    /\ calls = <<>>
    /\ client_manager = NoClient
    /\ values_specs = <<>>
    /\ environ = <<>>
    /\ parser = <<>>
    /\ router_info = <<>>
    /\ pc = "run"
    /\ trace = <<>>
    /\ stdout = <<>>
    /\ stderr = <<>>

Init == InitWith(ArgVectors)

\* run: the loop over argv and the rewrites that follow it.
Run_ScanArgs ==
    /\ pc = "run"
    /\ LET st == ScanArgs(argv, CommandTable(commands, api_version), 0,
                          ScanStart) IN
       IF st.completion
       THEN /\ trace' = Append(trace, Event("_bash_completion", None))
            /\ stdout' = Append(stdout, Event("completion", None))
            /\ ret' = IntV(COMPLETION_STATUS)
            /\ pc' = "main_return"
            /\ UNCHANGED argv
       ELSE /\ argv' = RewriteArgv(argv, st)
            /\ pc' = "parse"
            /\ UNCHANGED <<trace, stdout, ret>>
    /\ UNCHANGED <<commands, command_manager, api_version, argv0, options,
                   remainder, interactive_mode, cmd_name, sub_argv, exc,
                   exit_code, stderr>>
    /\ UNCHANGED <<initVars, routerVars, appVars>>

\* run: self.options, remainder = self.parser.parse_known_args(argv)
Run_ParseGlobal ==
    /\ pc = "parse"
    /\ LET r == ParseGlobal(argv, 1, DefaultOptions, <<>>) IN
       IF r.kind = "exit"
       THEN /\ stdout' = Append(stdout, Event("help", None))
            /\ exc' = SystemExit(r.code)
            /\ trace' = Append(trace, Event("raise", "SystemExit"))
            /\ pc' = "main_except"
            /\ UNCHANGED <<options, remainder, stderr>>
       ELSE IF r.kind = "error"
       THEN /\ stderr' = Append(stderr, Event("usage", "neutron"))
            /\ exc' = SystemExit(r.code)
            /\ trace' = Append(Append(trace, Event("parser.error", "neutron")),
                               Event("raise", "SystemExit"))
            /\ pc' = "main_except"
            /\ UNCHANGED <<options, remainder, stdout>>
       ELSE /\ options' = r.options
            /\ remainder' = r.remainder
            /\ pc' = "initialize_app"
            /\ UNCHANGED <<stdout, exc, trace, stderr>>
    /\ UNCHANGED <<commands, command_manager, api_version, argv0, argv,
                   interactive_mode, cmd_name, sub_argv, ret, exit_code>>
    /\ UNCHANGED <<initVars, routerVars, appVars>>

\* run: interactive_mode, and initialize_app up to authenticate_user
Run_InitializeApp ==
    /\ pc = "initialize_app"
    /\ interactive_mode' = (remainder = <<>>)
        /\ LET f == FindCommand(ManagerTable(command_manager), remainder) IN
       IF remainder # <<>> /\ ~f.found
       THEN /\ exc' = Raise("ValueError")
            /\ trace' = Append(Append(trace, Event("find_command", None)),
                               Event("raise", "ValueError"))
            /\ pc' = "run_except"
            /\ UNCHANGED cmd_name
       ELSE /\ cmd_name' = IF remainder # <<>> THEN f.name ELSE None
            /\ trace' = IF remainder # <<>>
                        THEN Append(trace, Event("find_command", f.name))
                        ELSE trace
            /\ pc' = IF NeedsAuth(interactive_mode', cmd_name')
                     THEN "authenticate" ELSE "dispatch"
            /\ UNCHANGED exc
    /\ UNCHANGED <<commands, command_manager, api_version, argv0, argv,
                   options, remainder, sub_argv, ret, exit_code, stdout,
                   stderr>>
    /\ UNCHANGED <<initVars, routerVars, appVars>>

\* authenticate_user: the session is built and the client manager made
\* with the retries of the options, or the identity library raises, or the
\* user interrupts the blocking call.
AuthenticateUser ==
    /\ pc = "authenticate"
    /\ \E outcome \in {"ok", "Exception", "NeutronClientException",
                       "KeyboardInterrupt"} :
        IF outcome = "ok"
        THEN /\ trace' = Append(Append(trace,
                                Event("authenticate_user", "called")),
                                Event("authenticate_user", "completed"))
             /\ client_manager' = ClientManager(options.retries)
             /\ pc' = "dispatch"
             /\ UNCHANGED exc
        ELSE /\ trace' = Append(Append(trace,
                                Event("authenticate_user", "called")),
                                Event("raise", outcome))
             /\ exc' = Raise(outcome)
             /\ pc' = IF IsException(exc') THEN "run_except"
                      ELSE "main_except"
             /\ UNCHANGED client_manager
    /\ UNCHANGED <<commands, command_manager, api_version, argv0, argv,
                   options, remainder, interactive_mode, cmd_name, sub_argv,
                   ret, exit_code, stdout, stderr>>
    /\ UNCHANGED <<initVars, routerVars, values_specs, environ, parser,
                   router_info>>


\* run: the `except Exception` clause around the parse and initialize_app
Run_Except ==
    /\ pc = "run_except"
    /\ IF Reraises(options)
       THEN /\ stderr' = Append(stderr, Event("log.exception", exc.kind))
            /\ pc' = "main_except"
            /\ UNCHANGED <<exc, ret>>
       ELSE /\ stderr' = Append(stderr, Event("log.error", exc.kind))
            /\ exc' = NoException
            /\ ret' = IntV(RunErrorReturn)
            /\ pc' = "main_return"
    /\ UNCHANGED <<commands, command_manager, api_version, argv0, argv,
                   options, remainder, interactive_mode, cmd_name, sub_argv,
                   exit_code, trace, stdout>>
    /\ UNCHANGED <<initVars, routerVars, appVars>>

\* run: `if self.interactive_mode: ... return self.interact()`, else
\* run_subcommand up to the command's parser: find_command, cmd_factory,
\* prepare_to_run_command, get_parser.
Run_Dispatch ==
    /\ pc = "dispatch"
    /\ IF interactive_mode
       THEN /\ pc' = "interact"
            /\ UNCHANGED <<cmd_name, sub_argv, trace, exc>>
       ELSE LET f == FindCommand(ManagerTable(command_manager), remainder) IN
            IF f.found
            THEN /\ cmd_name' = f.name
                 /\ sub_argv' = f.sub_argv
                 /\ trace' = Append(trace, Event("cmd_factory", f.name))
                 /\ pc' = "run_command"
                 /\ UNCHANGED exc
            ELSE /\ exc' = Raise("ValueError")
                 /\ trace' = Append(trace, Event("raise", "ValueError"))
                 /\ pc' = "main_except"
                 /\ UNCHANGED <<cmd_name, sub_argv>>
    /\ UNCHANGED <<commands, command_manager, api_version, argv0, argv,
                   options, remainder, interactive_mode, ret, exit_code,
                   stdout, stderr>>
    /\ UNCHANGED <<initVars, routerVars, appVars>>

\* self.interact(): cliff's interactive loop, until it returns or the user
\* interrupts it.
Interact ==
    /\ pc = "interact"
    /\ \E outcome \in {"return", "KeyboardInterrupt"} :
        IF outcome = "return"
        THEN /\ trace' = Append(trace, Event("interact", None))
             /\ ret' = IntV(0)
             /\ pc' = "main_return"
             /\ UNCHANGED exc
        ELSE /\ trace' = Append(Append(trace, Event("interact", None)),
                                Event("raise", outcome))
             /\ exc' = Raise(outcome)
             /\ pc' = "main_except"
             /\ UNCHANGED ret
    /\ UNCHANGED <<commands, command_manager, api_version, argv0, argv,
                   options, remainder, interactive_mode, cmd_name, sub_argv,
                   exit_code, stdout, stderr>>
    /\ UNCHANGED <<initVars, routerVars, appVars>>

\* How many lines the user types in one interactive loop, and the commands
\* typed.
MaxLines == 2
InteractLines == {"router-gateway-clear", "help"}

\* The interactive loop reads a line and starts its subcommand; it reads
\* no other line until that one is done.
Interact_Line ==
    /\ pc = "interact"
    /\ Cardinality({i \in DOMAIN trace : trace[i].ev = "interact.line"})
          < MaxLines
    /\ \E line \in InteractLines :
          trace' = Append(trace, Event("interact.line", line))
    /\ pc' = "interact_cmd"
    /\ UNCHANGED <<shellVars, stdout, stderr>>
    /\ UNCHANGED <<initVars, routerVars, appVars>>

\* The subcommand of the line runs to its end, or the user interrupts it;
\* the loop then reads on.
Interact_CmdRun ==
    /\ pc = "interact_cmd"
    /\ LET line == trace[Len(trace)].arg IN
       \E outcome \in {"return", "KeyboardInterrupt"} :
          IF outcome = "return"
          THEN /\ trace' = Append(trace, Event("cmd.run", line))
               /\ pc' = "interact"
               /\ UNCHANGED exc
          ELSE /\ trace' = Append(Append(trace, Event("cmd.run", line)),
                                  Event("raise", outcome))
               /\ exc' = Raise(outcome)
               /\ pc' = "main_except"
    /\ UNCHANGED <<commands, command_manager, api_version, argv0, argv,
                   options, remainder, interactive_mode, cmd_name, sub_argv,
                   ret, exit_code, stdout, stderr>>
    /\ UNCHANGED <<initVars, routerVars, appVars>>

\* run_command, up to the call of cmd.run: a rejection by the parser is
\* argparse's SystemExit; otherwise known_args and cmd.values_specs are
\* set.
RunCommand_Parse ==
    /\ pc = "run_command"
    /\ LET r == run_command(cmd_name, sub_argv) IN
       IF r.rejected
       THEN /\ exc' = SystemExit(ARGPARSE_ERROR_STATUS)
            /\ trace' = Append(Append(trace, Event("parser.error", cmd_name)),
                               Event("raise", "SystemExit"))
            /\ stderr' = Append(stderr, Event("usage", cmd_name))
            /\ pc' = "subcommand_systemexit"
            /\ UNCHANGED <<parsed_args, locals, values_specs>>
       ELSE /\ parsed_args' = r.known_args
            /\ locals' = ("_argv" :> r._argv)
                            @@ ("_values_specs" :> r._values_specs)
            /\ values_specs' = r.values_specs
            /\ pc' = "cmd_run"
            /\ UNCHANGED <<exc, trace, stderr>>
    /\ UNCHANGED <<commands, command_manager, api_version, argv0, argv,
                   options, remainder, interactive_mode, cmd_name, sub_argv,
                   ret, exit_code, stdout>>
    /\ UNCHANGED <<initVars, rcmd, calls, client_manager, environ, parser,
                   router_info>>

\* run_subcommand: `except SystemExit: print(...); raise`
RunSubcommand_SystemExit ==
    /\ pc = "subcommand_systemexit"
    /\ stderr' = SubcommandOnSystemExit(stderr, cmd_name)
    /\ pc' = "main_except"
    /\ UNCHANGED <<shellVars, trace, stdout>>
    /\ UNCHANGED <<initVars, routerVars, appVars>>

\* run_command: return cmd.run(known_args)
RunCommand_Run ==
    /\ pc = "cmd_run"
    /\ \E outcome \in CmdOutcomes(cmd_name) :
        IF outcome = "return"
        THEN /\ trace' = Append(trace, Event("cmd.run", cmd_name))
             /\ ret' = CmdRunReturn(cmd_name)
             /\ pc' = "main_return"
             /\ UNCHANGED exc
        ELSE /\ trace' = Append(Append(trace, Event("cmd.run", cmd_name)),
                                Event("raise", outcome))
             /\ exc' = Raise(outcome)
             /\ pc' = IF IsException(exc') THEN "subcommand_except"
                      ELSE "main_except"
             /\ UNCHANGED ret
    /\ UNCHANGED <<commands, command_manager, api_version, argv0, argv,
                   options, remainder, interactive_mode, cmd_name, sub_argv,
                   exit_code, stdout, stderr>>
    /\ UNCHANGED <<initVars, routerVars, appVars>>

\* run_subcommand: the `except Exception` clause, and `return 1`
RunSubcommand_Except ==
    /\ pc = "subcommand_except"
    /\ IF Reraises(options)
       THEN /\ stderr' = Append(stderr, Event("log.exception", exc.kind))
            /\ pc' = "main_except"
            /\ UNCHANGED <<exc, ret>>
       ELSE /\ stderr' = Append(stderr, Event("log.error", exc.kind))
            /\ exc' = NoException
            /\ ret' = IntV(SubcommandErrorReturn)
            /\ pc' = "main_return"
    /\ UNCHANGED <<commands, command_manager, api_version, argv0, argv,
                   options, remainder, interactive_mode, cmd_name, sub_argv,
                   exit_code, trace, stdout>>
    /\ UNCHANGED <<initVars, routerVars, appVars>>

\* main: the except clauses; SystemExit is none of them and ends the process
\* with its code.
Main_Except ==
    /\ pc = "main_except"
    /\ IF exc.kind = "SystemExit"
       THEN /\ exit_code' = exc.code
            /\ pc' = "exited"
            /\ UNCHANGED <<ret, stdout, stderr>>
       ELSE /\ ret' = IntV(MainCatch(exc))
            /\ stderr' = IF exc.kind = "KeyboardInterrupt"
                         THEN Append(stderr,
                                Event("... terminating neutron client", None))
                         ELSE stderr
            /\ stdout' = IF exc.kind \notin {"KeyboardInterrupt",
                                             "NeutronClientException"}
                         THEN Append(stdout, Event("print", exc.kind))
                         ELSE stdout
            /\ pc' = "main_return"
            /\ UNCHANGED exit_code
    /\ UNCHANGED <<commands, command_manager, api_version, argv0, argv,
                   options, remainder, interactive_mode, cmd_name, sub_argv,
                   exc, trace>>
    /\ UNCHANGED <<initVars, routerVars, appVars>>

\* sys.exit(main(sys.argv[1:]))
Main_Return ==
    /\ pc = "main_return"
    /\ exit_code' = ProcessStatus(ret)
    /\ pc' = "exited"
    /\ UNCHANGED <<commands, command_manager, api_version, argv0, argv,
                   options, remainder, interactive_mode, cmd_name, sub_argv,
                   exc, ret, trace, stdout, stderr>>
    /\ UNCHANGED <<initVars, routerVars, appVars>>

Next ==
    \/ Run_ScanArgs
    \/ Run_ParseGlobal
    \/ Run_InitializeApp
    \/ AuthenticateUser
    \/ Run_Except
    \/ Run_Dispatch
    \/ Interact
    \/ Interact_Line
    \/ Interact_CmdRun
    \/ RunCommand_Parse
    \/ RunSubcommand_SystemExit
    \/ RunCommand_Run
    \/ RunSubcommand_Except
    \/ Main_Except
    \/ Main_Return

Spec == Init /\ [][Next]_vars

\* The same program on argument vectors with -r and its values.
RetryTokens == {"-r", "2", "-1", "x", "-h", "router-gateway-clear",
                "myrouter", "bash-completion"}
InitRetries == InitWith(SeqsUpTo(RetryTokens, MaxArgs))
SpecRetries == InitRetries /\ [][Next]_vars


\* ------------------------------------------------------- claims of Spec
Exited == pc = "exited"

\* The first argument of main's argument vector that is not an option.
OptionTokens == {"-h", "--help", "-v", "--verbose", "--debug", "-q",
                 "--quiet"}
NonOptions(av) == SelectSeq(av, LAMBDA a : a \notin OptionTokens)

\* C1: authenticate_user has completed before the run of any command other
\* than help is invoked, and it is never called when the located command is
\* help.
C1_AuthBeforeCommand ==
    /\ \A i \in DOMAIN trace :
          (trace[i].ev = "cmd.run" /\ trace[i].arg # "help") =>
              \E j \in 1..(i - 1) :
                  trace[j] = Event("authenticate_user", "completed")
    /\ cmd_name = "help" => ~Occurred("authenticate_user")

C1_Witness ==
    /\ Exited
    /\ Happened("cmd.run", "router-gateway-clear")

\* C2 as stated: whenever the first non-option argument is not a name the
\* command manager knows, nothing is instantiated, run or called and the
\* exit code is 1.
C2_AsStated ==
    (Exited /\ NonOptions(argv0) # <<>>
            /\ NonOptions(argv0)[1] \notin DOMAIN ManagerTable(command_manager)) =>
        /\ exit_code = IntV(1)
        /\ ~Occurred("cmd_factory")
        /\ ~Occurred("cmd.run")
        /\ ~Occurred("authenticate_user")

\* C2 amended: when run reaches the command lookup of initialize_app (no
\* bash-completion argument ended run, the global parser did not exit for
\* help) and the first remaining argument is not a name the command manager
\* knows, the lookup raises the unknown-command error, no command class is
\* instantiated or run, authenticate_user is not called and the exit code
\* is 1.
C2_UnknownCommand ==
    (Occurred("find_command") /\ remainder[1] \notin DOMAIN ManagerTable(command_manager))
      =>
        /\ Happened("raise", "ValueError")
        /\ ~Occurred("cmd_factory")
        /\ ~Occurred("cmd.run")
        /\ ~Occurred("authenticate_user")
        /\ Exited => exit_code = IntV(1)

C2_Witness ==
    /\ Exited
    /\ Happened("find_command", None)
    /\ Happened("raise", "ValueError")
    /\ exit_code = IntV(1)

\* An exception class derived from Exception was raised.
ErrorRaised ==
    \E i \in DOMAIN trace :
        /\ trace[i].ev = "raise"
        /\ trace[i].arg \notin {"KeyboardInterrupt", "SystemExit"}

ExtCommandNames == {"complete", "router-list", "ext-list"}

\* The classes inspect.getmembers finds in the extension modules, as
\* _extend_shell_commands reads them. What is not read is fixed.
ExtClasses ==
    {c \in [name : {"ext.A", "ext.B"}, is_extension : BOOLEAN,
            has_shell_command : BOOLEAN, shell_command : ExtCommandNames,
            has_versions : BOOLEAN, versions : {{"2.0"}, {"3.0"}},
            raises_type_error : BOOLEAN] :
        /\ ~c.has_shell_command => c.shell_command = "ext-list"
        /\ ~c.has_versions => c.versions = {"2.0"}
        /\ ~(c.is_extension /\ c.has_shell_command) =>
              ~c.has_versions /\ ~c.raises_type_error /\ c.name = "ext.A"
        /\ ~c.is_extension => c.has_shell_command}

InitS ==
    /\ commands = ShellBeforeExtensions.commands
    /\ command_manager = ShellBeforeExtensions.command_manager
    /\ api_version = NEUTRON_API_VERSION
    /\ extensions \in SeqsUpTo(ExtClasses, MaxExtensions)
    /\ registered = <<>>
    /\ argv0 = <<>>
    /\ argv = <<>>
    /\ options = None
    /\ remainder = <<>>
    /\ interactive_mode = FALSE
    /\ cmd_name = None
    /\ sub_argv = <<>>
    /\ exc = NoException
    /\ ret = NoInt
    /\ exit_code = NoInt
    /\ rcmd = None
    /\ parsed_args = <<>>
    /\ locals = <<>>
    /\ calls = <<>>
    /\ client_manager = NoClient
    /\ values_specs = <<>>
    /\ environ = <<>>
    /\ parser = <<>>
    /\ router_info = <<>>
    /\ pc = "register_extensions"
    /\ trace = <<>>
    /\ stdout = <<>>
    /\ stderr = <<>>

\* _register_extensions: _extend_shell_commands for the next class
Init_ExtendShellCommands ==
    /\ pc = "register_extensions"
    /\ extensions # <<>>
    /\ LET cls == Head(extensions)
           sh == ExtendShellCommands(
                    [commands |-> commands,
                     command_manager |-> command_manager], cls, VERSION)
       IN  /\ commands' = sh.commands
           /\ command_manager' = sh.command_manager
           /\ registered' =
                 IF IsShellExtension(cls, VERSION) /\ ~cls.raises_type_error
                 THEN Append(registered, cls) ELSE registered
    /\ extensions' = Tail(extensions)
    /\ UNCHANGED <<api_version, argv0, argv, options, remainder,
                   interactive_mode, cmd_name, sub_argv, exc, ret,
                   exit_code>>
    /\ UNCHANGED <<routerVars, appVars, ioVars>>

\* __init__: self.command_manager.commands.pop('complete')
Init_PopComplete ==
    /\ pc = "register_extensions"
    /\ extensions = <<>>
    /\ command_manager' =
          PopComplete([commands |-> commands,
                       command_manager |-> command_manager]).command_manager
    /\ pc' = "constructed"
    /\ UNCHANGED <<commands, api_version, argv0, argv, options, remainder,
                   interactive_mode, cmd_name, sub_argv, exc, ret,
                   exit_code>>
    /\ UNCHANGED <<initVars, routerVars, appVars, trace, stdout, stderr>>

\* command_manager.find_command for a name of the dispatch table
Init_FindCommand ==
    /\ pc = "constructed"
    /\ \E name \in DOMAIN CommandTable(commands, api_version)
                      \cap (ExtCommandNames \cup {"router-create"}) :
        LET f == FindCommand(ManagerTable(command_manager), <<name>>) IN
        /\ remainder' = <<name>>
        /\ IF f.found
           THEN /\ cmd_name' = f.name
                /\ trace' = Append(trace, Event("find_command", f.factory))
                /\ UNCHANGED exc
           ELSE /\ exc' = Raise("ValueError")
                /\ trace' = Append(trace, Event("raise", "ValueError"))
                /\ UNCHANGED cmd_name
    /\ pc' = "looked_up"
    /\ UNCHANGED <<commands, command_manager, api_version, argv0, argv,
                   options, interactive_mode, sub_argv, ret, exit_code>>
    /\ UNCHANGED <<initVars, routerVars, appVars, stdout, stderr>>

NextInit ==
    \/ Init_ExtendShellCommands
    \/ Init_PopComplete
    \/ Init_FindCommand

SpecInit == InitS /\ [][NextInit]_vars

\* ---------------------------------------------------- claims of SpecInit
Constructed == pc \in {"constructed", "looked_up"}

\* C5 as stated: once the shell is constructed, the command manager and the
\* dispatch table bind every name of the dispatch table to the same class,
\* looking such a name up finds that class, and a class was registered only
\* if it is an extension class with a shell_command and with no versions
\* or with the shell's version among them.
C5_AsStated ==
    Constructed =>
        /\ \A n \in DOMAIN CommandTable(commands, api_version) :
              /\ n \in DOMAIN ManagerTable(command_manager)
              /\ ManagerTable(command_manager)[n] =
                    CommandTable(commands, api_version)[n]
        /\ pc = "looked_up" =>
              trace = <<Event("find_command",
                         CommandTable(commands, api_version)[remainder[1]])>>
        /\ \A i \in DOMAIN registered :
              /\ registered[i].is_extension
              /\ registered[i].has_shell_command
              /\ ~registered[i].has_versions
                    \/ VERSION \in registered[i].versions

\* What holds of the tables: they agree on every name but 'complete', and
\* the dispatch table holds 'complete' only when an extension registered it.
TablesAgreeButComplete ==
    Constructed =>
        /\ \A n \in DOMAIN CommandTable(commands, api_version) \ {"complete"} :
              /\ n \in DOMAIN ManagerTable(command_manager)
              /\ ManagerTable(command_manager)[n] =
                    CommandTable(commands, api_version)[n]
        /\ "complete" \notin DOMAIN ManagerTable(command_manager)
        /\ "complete" \in DOMAIN CommandTable(commands, api_version) <=>
              \E i \in DOMAIN registered :
                  registered[i].shell_command = "complete"


\* ========================================================== SpecRouter
\* The run of one router command with the Namespace its parser produced.
\* A string the code takes apart or puts together is a sequence of symbols;
\* "=" is the symbol the code splits on, the other symbols hold no "=".

\* Identifiers of the service, and display names.
Ids == {<<"id-123">>, <<"id-456">>}
RouterTokens == {<<"myrouter">>, <<"id-123">>}
InterfaceSymbols == {"=", "subnet", "port", "s1", "id-456"}
InterfaceArgs == SeqsUpTo(InterfaceSymbols, MaxInterfaceLen) \ {<<>>}
PortInfos == {[port_id |-> <<"port-9">>]}

InterfaceCommands == {"router-interface-add", "router-interface-delete"}

\* ch in s
Contains(str, ch) == \E i \in DOMAIN str : str[i] = ch

\* s.split(ch, 1) of a string that holds ch: what is before the first ch,
\* and what is after it
SplitFirst(str, ch) ==
    LET i == CHOOSE k \in DOMAIN str :
                 str[k] = ch /\ \A j \in 1..(k - 1) : str[j] # ch
    IN  <<SubSeq(str, 1, i - 1), SubSeq(str, i + 1, Len(str))>>

\* s.rsplit(ch, 1): the split at the last ch
SplitLast(str, ch) ==
    LET i == CHOOSE k \in DOMAIN str :
                 str[k] = ch /\ \A j \in (k + 1)..Len(str) : str[j] # ch
    IN  <<SubSeq(str, 1, i - 1), SubSeq(str, i + 1, Len(str))>>

\* An interface parser that splits at the last "=".
InterfaceOf_SplitLast(interface) ==
    IF Contains(interface, "=")
    THEN [resource |-> SplitLast(interface, "=")[1],
          value |-> SplitLast(interface, "=")[2]]
    ELSE [resource |-> <<"subnet">>, value |-> interface]

\* RouterInterfaceCommand.run: resource and value of INTERFACE. The
\* CommandError for a resource that is neither subnet nor port is built and
\* dropped: there is no raise.
InterfaceOf(interface) ==
    IF Contains(interface, "=")
    THEN [resource |-> SplitFirst(interface, "=")[1],
          value |-> SplitFirst(interface, "=")[2]]
    ELSE [resource |-> <<"subnet">>, value |-> interface]

\* body = {'%s_id' % resource: _interface_id}
InterfaceBody(resource, id) == ((resource \o <<"_id">>) :> id)

\* --- the name resolver, neutronV20.find_resourceid_by_name_or_id
\* A token in the identifier format of the service is taken as the ID.
IsIdFormat(token) == token \in Ids

\* The result of the query by display name, from the IDs it matched.
NameLookup(matches) ==
    IF matches = {} THEN [status |-> "NotFound", id |-> <<>>]
    ELSE IF Cardinality(matches) > 1
    THEN [status |-> "AmbiguousReference", id |-> <<>>]
    ELSE [status |-> "ok", id |-> CHOOSE m \in matches : TRUE]

\* How one resolution can end: without a query for a token in identifier
\* format; otherwise by the answer of the list endpoint, which may also
\* fail or be interrupted.
ResolveOutcomes(token) ==
    IF IsIdFormat(token)
    THEN {[by |-> "id", matches |-> {}, status |-> "ok", id |-> token]}
    ELSE {[by |-> "name", matches |-> m, status |-> NameLookup(m).status,
           id |-> NameLookup(m).id] : m \in SUBSET Ids}
         \cup {[by |-> "name", matches |-> {}, status |-> st, id |-> <<>>] :
                 st \in {"ClientError", "KeyboardInterrupt"}}

ResolveCall(rtype, token, o) ==
    [op |-> "find_resourceid_by_name_or_id", rtype |-> rtype,
     token |-> token, by |-> o.by, matches |-> o.matches,
     status |-> o.status, id |-> o.id]

\* A resolution whose failure is passed over: run goes on with the token
\* in place of the ID.
ResolveStep_GoOn(rtype, token, local, nextpc) ==
    \E o \in ResolveOutcomes(token) :
        /\ calls' = Append(calls, ResolveCall(rtype, token, o))
        /\ locals' = DictSet(locals, local,
                             IF o.status = "ok" THEN o.id ELSE token)
        /\ pc' = nextpc
        /\ UNCHANGED exc

\* A resolution whose failure is followed by a call that takes the gateway
\* of the router away again.
ResolveStep_Undo(rtype, token, local, nextpc) ==
    \E o \in ResolveOutcomes(token) :
        IF o.status = "ok"
        THEN /\ calls' = Append(calls, ResolveCall(rtype, token, o))
             /\ locals' = DictSet(locals, local, o.id)
             /\ pc' = nextpc
             /\ UNCHANGED exc
        ELSE /\ calls' = Append(Append(calls, ResolveCall(rtype, token, o)),
                                [op |-> "remove_gateway_router",
                                 target |-> token, body |-> <<>>,
                                 status |-> "ok", result |-> <<>>])
             /\ exc' = Raise(o.status)
             /\ pc' = "raised"
             /\ UNCHANGED locals

\* One call of the resolver by a command's run: the ID goes to a local, or
\* the exception leaves run.
ResolveStep(rtype, token, local, nextpc) ==
    \E o \in ResolveOutcomes(token) :
        /\ calls' = Append(calls, ResolveCall(rtype, token, o))
        /\ IF o.status = "ok"
           THEN /\ locals' = DictSet(locals, local, o.id)
                /\ pc' = nextpc
                /\ UNCHANGED exc
           ELSE /\ exc' = Raise(o.status)
                /\ pc' = "raised"
                /\ UNCHANGED locals

\* --- the API client
ApiOutcomes == {"ok", "ClientError", "KeyboardInterrupt"}

ApiCall(op, target, body, status, result) ==
    [op |-> op, target |-> target, body |-> body, status |-> status,
     result |-> result]

\* An action call that is issued again after a failure, as often as the
\* retry count of the client manager allows.
ApiStep_Reissue(op, target, body, results, local, nextpc) ==
    \E st \in ApiOutcomes, r \in results :
        /\ calls' = Append(calls, ApiCall(op, target, body, st,
                                          IF st = "ok" THEN r ELSE <<>>))
        /\ IF st = "ok"
           THEN /\ locals' = DictSet(locals, local, r)
                /\ pc' = nextpc
                /\ UNCHANGED exc
           ELSE IF Cardinality({k \in DOMAIN calls : calls[k].op = op})
                   < client_manager.retries[1]
           THEN /\ pc' = pc
                /\ UNCHANGED <<exc, locals>>
           ELSE /\ exc' = Raise(st)
                /\ pc' = "raised"
                /\ UNCHANGED locals

\* An action call whose failure is passed over: run goes on to its print.
ApiStep_Swallow(op, target, body, results, local, nextpc) ==
    \E st \in ApiOutcomes, r \in results :
        /\ calls' = Append(calls, ApiCall(op, target, body, st,
                                          IF st = "ok" THEN r ELSE <<>>))
        /\ locals' = DictSet(locals, local, r)
        /\ pc' = nextpc
        /\ UNCHANGED exc

\* One action call by a command's run: its result goes to a local, or the
\* exception leaves run.
ApiStep(op, target, body, results, local, nextpc) ==
    \E st \in ApiOutcomes, r \in results :
        /\ calls' = Append(calls, ApiCall(op, target, body, st,
                                          IF st = "ok" THEN r ELSE <<>>))
        /\ IF st = "ok"
           THEN /\ locals' = DictSet(locals, local, r)
                /\ pc' = nextpc
                /\ UNCHANGED exc
           ELSE /\ exc' = Raise(st)
                /\ pc' = "raised"
                /\ UNCHANGED locals

\* A line printed to self.app.stdout: the format and what it interpolates.
Msg(fmt, args) == [fmt |-> fmt, args |-> args]

\* --- RemoveGatewayRouter
\* A clear that calls the API with the token the user typed.
GatewayClearTarget_Token(args, loc) == args.router

\* neutron_client.remove_gateway_router(_router_id)
GatewayClearTarget(args, loc) == loc["_router_id"]

\* print(_('Removed gateway from router %s') % parsed_args.router)
GatewayClearMessage(args, loc) ==
    Msg("Removed gateway from router %s", <<args.router>>)

\* --- AddInterfaceRouter, RemoveInterfaceRouter
\* call_api
InterfaceApi(cmd) ==
    IF cmd = "router-interface-add" THEN "add_interface_router"
    ELSE "remove_interface_router"

\* What the action call returns: the port of the new interface, or None.
InterfaceResults(cmd) ==
    IF cmd = "router-interface-add" THEN PortInfos ELSE {<<>>}

\* success_message(parsed_args.router, portinfo)
InterfaceMessage(cmd, router, portinfo) ==
    IF cmd = "router-interface-add"
    THEN Msg("Added interface %(port)s to router %(router)s.",
             <<portinfo.port_id, router>>)
    ELSE Msg("Removed interface from router %s.", <<router>>)


\* --- SetGatewayRouter
ExtNetTokens == {<<"ext-net">>, <<"id-456">>}

\* What str2dict_type(optional_keys=['subnet_id', 'ip_address']) makes of
\* one --fixed-ip: a dict with some of the two keys; "subnet_id=" gives the
\* empty string.
FixedIpSpecs ==
    {<<>>}
    \cup {("subnet_id" :> sn) : sn \in {<<>>, <<"s1">>, <<"id-456">>}}
    \cup {("ip_address" :> <<"10.0.0.5">>)}
    \cup {("subnet_id" :> sn) @@ ("ip_address" :> <<"10.0.0.5">>) :
            sn \in {<<>>, <<"s1">>, <<"id-456">>}}

\* A test that sends only the first occurrence of a subnet token to the
\* resolver.
HasSubnet_FirstOccurrence(ip_spec) ==
    /\ "subnet_id" \in DOMAIN ip_spec
    /\ ip_spec["subnet_id"] # <<>>
    /\ \A k \in DOMAIN calls :
          calls[k].op = "find_resourceid_by_name_or_id" =>
              calls[k].token # ip_spec["subnet_id"]

\* subnet_name_id = ip_spec.get('subnet_id'); if subnet_name_id:
HasSubnet(ip_spec) ==
    "subnet_id" \in DOMAIN ip_spec /\ ip_spec["subnet_id"] # <<>>

\* A gateway body that carries the token the user typed for the network.
GatewayRouterDict_Token(args, loc) ==
    IF args.disable_snat
    THEN ("network_id" :> args.external_network) @@ ("enable_snat" :> FALSE)
    ELSE ("network_id" :> args.external_network)

\* router_dict = {'network_id': _ext_net_id}, and enable_snat False under
\* --disable-snat
GatewayRouterDict(args, loc) ==
    IF args.disable_snat
    THEN ("network_id" :> loc["_ext_net_id"]) @@ ("enable_snat" :> FALSE)
    ELSE ("network_id" :> loc["_ext_net_id"])

\* print(_('Set gateway for router %s') % parsed_args.router)
GatewaySetMessage(args, loc) ==
    Msg("Set gateway for router %s", <<args.router>>)

\* --- CreateRouter
\* The options of one router-create command line: the two spellings of the
\* admin-state flag that were given, and each other option boxed, <<>> when
\* it was not given.
CreateOptions ==
    [name : {<<"myrouter">>},
     admin_state_down : SUBSET {"--admin-state-down", "--admin_state_down"},
     tenant_id : {<<>>, <<<<"t1">>>>},
     distributed : {<<>>, <<TRUE>>, <<FALSE>>},
     ha : {<<>>, <<TRUE>>, <<FALSE>>},
     availability_zone_hints : SeqsUpTo({<<"az1">>}, MaxAzHints)]

\* The Namespace of the router-create parser for these options: attribute
\* name to boxed value, <<>> for None. Both admin-state flags store False
\* to admin_state, which is True by default; NAME is required. An optional
\* attribute that was not given is None, or missing when absent is TRUE.
CreateNamespace(opts, absent) ==
    LET given == ("admin_state" :> <<opts.admin_state_down = {}>>)
                 @@ ("name" :> <<opts.name>>)
                 @@ ("tenant_id" :> opts.tenant_id)
                 @@ ("distributed" :> opts.distributed)
                 @@ ("ha" :> opts.ha)
                 @@ ("availability_zone_hints" :>
                        IF opts.availability_zone_hints = <<>> THEN <<>>
                        ELSE <<opts.availability_zone_hints>>)
        dropped == IF absent
                   THEN {a \in {"distributed", "ha"} : given[a] = <<>>}
                   ELSE {}
    IN  [a \in DOMAIN given \ dropped |-> given[a]]

\* neutronV20.update_dict: each listed attribute that the Namespace has with
\* a value other than None goes to the dict.
RECURSIVE update_dict(_, _, _)
update_dict(obj, dict, attributes) ==
    IF attributes = <<>> THEN dict
    ELSE LET a == Head(attributes)
             d == IF a \in DOMAIN obj /\ obj[a] # <<>>
                  THEN DictSet(dict, a, obj[a]) ELSE dict
         IN  update_dict(obj, d, Tail(attributes))

\* update_dict without the test for None.
RECURSIVE update_dict_KeepNone(_, _, _)
update_dict_KeepNone(obj, dict, attributes) ==
    IF attributes = <<>> THEN dict
    ELSE LET a == Head(attributes)
             d == IF a \in DOMAIN obj
                  THEN DictSet(dict, a, obj[a]) ELSE dict
         IN  update_dict_KeepNone(obj, d, Tail(attributes))

\* availability_zone.args2body_az_hint: the hints go to the body when some
\* were given.
args2body_az_hint(obj, dict) ==
    IF obj["availability_zone_hints"] # <<>>
    THEN DictSet(dict, "availability_zone_hints",
                 obj["availability_zone_hints"])
    ELSE dict

\* An args2body that always sends admin_state_up true and copies the
\* attributes with their None.
CreateRouter_args2body_Careless(obj) ==
    LET body == ("admin_state_up" :> <<TRUE>>)
        upd == update_dict_KeepNone(obj, body,
                           <<"name", "tenant_id", "distributed", "ha">>)
    IN  ("router" :> args2body_az_hint(obj, upd))

\* CreateRouter.args2body
CreateRouter_args2body(obj) ==
    LET body == ("admin_state_up" :> obj["admin_state"])
        upd == update_dict(obj, body,
                           <<"name", "tenant_id", "distributed", "ha">>)
    IN  ("router" :> args2body_az_hint(obj, upd))

\* --- UpdateRouter
\* What str2dict_type(required_keys=['destination', 'nexthop']) makes of
\* one --route.
RouteSpecs ==
    {[destination |-> <<"10.1.0.0/24">>, nexthop |-> <<"10.0.0.1">>],
     [destination |-> <<"10.2.0.0/24">>, nexthop |-> <<"10.0.0.2">>]}

\* The options of one router-update command line: the router, each option
\* boxed, <<>> when it was not given, whether --no-routes was given, and
\* the --route options in order.
UpdateOptions ==
    [id : RouterTokens,
     name : {<<>>, <<<<"r2">>>>},
     admin_state : {<<>>, <<TRUE>>, <<FALSE>>},
     distributed : {<<>>, <<TRUE>>, <<FALSE>>},
     no_routes : BOOLEAN,
     routes : SeqsUpTo(RouteSpecs, MaxRoutes)]

\* --route and --no-routes are one mutually exclusive group: the parser
\* takes one of them at most.
UpdateParserRejects(opts) == opts.no_routes /\ opts.routes # <<>>

\* The Namespace of the router-update parser: --name and --route are None
\* when not given, --no-routes is False; the attribute of a boolean option
\* that was not given is missing.
UpdateNamespace(opts) ==
    LET given == ("id" :> <<opts.id>>)
                 @@ ("name" :> opts.name)
                 @@ ("admin_state" :> opts.admin_state)
                 @@ ("distributed" :> opts.distributed)
                 @@ ("no_routes" :> <<opts.no_routes>>)
                 @@ ("routes" :> IF opts.routes = <<>> THEN <<>>
                                 ELSE <<opts.routes>>)
        dropped == {a \in {"admin_state", "distributed"} : given[a] = <<>>}
    IN  [a \in DOMAIN given \ dropped |-> given[a]]

\* An args2body that sends routes in every update, null without --route.
UpdateRouter_args2body_AlwaysRoutes(obj) ==
    LET body == IF "admin_state" \in DOMAIN obj
                THEN ("admin_state_up" :> obj["admin_state"]) ELSE <<>>
        upd == update_dict(obj, body, <<"name", "distributed">>)
    IN  ("router" :> DictSet(upd, "routes", obj["routes"]))

\* UpdateRouter.args2body
UpdateRouter_args2body(obj) ==
    LET body == IF "admin_state" \in DOMAIN obj
                THEN ("admin_state_up" :> obj["admin_state"]) ELSE <<>>
        upd == update_dict(obj, body, <<"name", "distributed">>)
    IN  ("router" :>
           IF obj["no_routes"] = <<TRUE>> THEN DictSet(upd, "routes", <<>>)
           ELSE IF obj["routes"] # <<>>
           THEN DictSet(upd, "routes", obj["routes"])
           ELSE upd)

\* --- the commands and their Namespaces
RouterCommands == InterfaceCommands
                  \cup {"router-gateway-clear", "router-gateway-set",
                        "router-create", "router-update"}

\* The arguments of one router-gateway-set command line; the Namespace of
\* its parser holds the same.
GatewaySetOptions ==
    [router : RouterTokens, external_network : ExtNetTokens,
     disable_snat : BOOLEAN,
     fixed_ip : SeqsUpTo(FixedIpSpecs, MaxFixedIps)]

\* The Namespaces the parser of a command can hand to run; for router-create
\* and router-gateway-set from the options of the command line.
\* router-update starts before its parser, with no Namespace yet.
ParsedArgsOf(cmd, opts) ==
    IF cmd = "router-update" THEN {<<>>}
    ELSE IF cmd \in InterfaceCommands
    THEN [router : RouterTokens, interface : InterfaceArgs]
    ELSE IF cmd = "router-gateway-clear"
    THEN [router : RouterTokens]
    ELSE IF cmd = "router-gateway-set"
    THEN {opts}
    ELSE {CreateNamespace(opts, ab) : ab \in BOOLEAN}


\* What no step of a router command touches.
routerFrame == <<commands, command_manager, api_version, argv0, argv,
                 options, remainder, interactive_mode, cmd_name, sub_argv,
                 ret, exit_code, extensions, registered, rcmd,
                 client_manager, values_specs, environ, parser,
                 router_info,
                 trace, stderr>>

\* run(parsed_args) of the command class is entered; router-update is
\* about to parse its arguments. sub_argv holds the options of a
\* router-create, router-update or router-gateway-set command line.
InitR ==
    /\ commands = NoChange
    /\ command_manager = NoChange
    /\ api_version = NEUTRON_API_VERSION
    /\ extensions = <<>>
    /\ registered = <<>>
    /\ argv0 = <<>>
    /\ argv = <<>>
    /\ options = None
    /\ remainder = <<>>
    /\ interactive_mode = FALSE
    /\ cmd_name = None
    /\ exc = NoException
    /\ ret = NoInt
    /\ exit_code = NoInt
    /\ rcmd \in RouterCommands
    /\ sub_argv \in IF rcmd = "router-create" THEN CreateOptions
                   ELSE IF rcmd = "router-update" THEN UpdateOptions
                   ELSE IF rcmd = "router-gateway-set"
                   THEN GatewaySetOptions
                   ELSE {<<>>}
    /\ parsed_args \in ParsedArgsOf(rcmd, sub_argv)
    /\ locals = <<>>
    /\ calls = <<>>
    /\ client_manager \in {ClientManager(n) : n \in 0..MaxRetries}
    /\ values_specs = <<>>
    /\ environ = <<>>
    /\ parser = <<>>
    /\ router_info = <<>>
    /\ pc = IF rcmd = "router-update" THEN "parse_args" ELSE "run"
    /\ trace = <<>>
    /\ stdout = <<>>
    /\ stderr = <<>>

\* RouterInterfaceCommand.run: resource, value from parsed_args.interface
RI_ParseInterface ==
    /\ pc = "run"
    /\ rcmd \in InterfaceCommands
    /\ LET iface == InterfaceOf(parsed_args.interface) IN
       locals' = DictSet(DictSet(locals, "resource", iface.resource),
                         "value", iface.value)
    /\ pc' = "ri_router"
    /\ UNCHANGED <<routerFrame, exc, parsed_args, calls, stdout>>

\* _router_id = find_resourceid_by_name_or_id(.., self.resource, ..router)
RI_ResolveRouter ==
    /\ pc = "ri_router"
    /\ ResolveStep(<<"router">>, parsed_args.router, "_router_id",
                   "ri_interface")
    /\ UNCHANGED <<routerFrame, parsed_args, stdout>>

\* _interface_id = find_resourceid_by_name_or_id(.., resource, value)
RI_ResolveInterface ==
    /\ pc = "ri_interface"
    /\ ResolveStep(locals["resource"], locals["value"], "_interface_id",
                   "ri_call")
    /\ UNCHANGED <<routerFrame, parsed_args, stdout>>

\* portinfo = self.call_api(neutron_client, _router_id, body)
RI_CallApi ==
    /\ pc = "ri_call"
    /\ ApiStep(InterfaceApi(rcmd), locals["_router_id"],
               InterfaceBody(locals["resource"], locals["_interface_id"]),
               InterfaceResults(rcmd), "portinfo", "ri_print")
    /\ UNCHANGED <<routerFrame, parsed_args, stdout>>

\* print(self.success_message(parsed_args.router, portinfo))
RI_Print ==
    /\ pc = "ri_print"
    /\ stdout' = Append(stdout, InterfaceMessage(rcmd, parsed_args.router,
                                                 locals["portinfo"]))
    /\ pc' = "returned"
    /\ UNCHANGED <<routerFrame, exc, parsed_args, locals, calls>>

\* RemoveGatewayRouter.run: _router_id = find_resourceid_by_name_or_id(..)
GC_ResolveRouter ==
    /\ pc = "run"
    /\ rcmd = "router-gateway-clear"
    /\ ResolveStep(<<"router">>, parsed_args.router, "_router_id", "gc_call")
    /\ UNCHANGED <<routerFrame, parsed_args, stdout>>

\* neutron_client.remove_gateway_router(_router_id)
GC_RemoveGateway ==
    /\ pc = "gc_call"
    /\ ApiStep("remove_gateway_router",
               GatewayClearTarget(parsed_args, locals), <<>>, {<<>>},
               "_", "gc_print")
    /\ UNCHANGED <<routerFrame, parsed_args, stdout>>

\* print(_('Removed gateway from router %s') % parsed_args.router)
GC_Print ==
    /\ pc = "gc_print"
    /\ stdout' = Append(stdout, GatewayClearMessage(parsed_args, locals))
    /\ pc' = "returned"
    /\ UNCHANGED <<routerFrame, exc, parsed_args, locals, calls>>

\* SetGatewayRouter.run: _router_id = find_resourceid_by_name_or_id(..)
GS_ResolveRouter ==
    /\ pc = "run"
    /\ rcmd = "router-gateway-set"
    /\ ResolveStep(<<"router">>, parsed_args.router, "_router_id",
                   "gs_network")
    /\ UNCHANGED <<routerFrame, parsed_args, stdout>>

\* _ext_net_id = find_resourceid_by_name_or_id(.., 'network', ..)
GS_ResolveNetwork ==
    /\ pc = "gs_network"
    /\ ResolveStep(<<"network">>, parsed_args.external_network,
                   "_ext_net_id", "gs_dict")
    /\ UNCHANGED <<routerFrame, parsed_args, stdout>>

\* router_dict is built; with some --fixed-ip, ips = [] and the loop is
\* entered
GS_RouterDict ==
    /\ pc = "gs_dict"
    /\ LET d == DictSet(locals, "router_dict",
                        GatewayRouterDict(parsed_args, locals))
       IN  IF parsed_args.fixed_ip # <<>>
           THEN /\ locals' = DictSet(DictSet(d, "ips", <<>>), "index", 1)
                /\ pc' = "gs_fixed_ip"
           ELSE /\ locals' = d
                /\ pc' = "gs_call"
    /\ UNCHANGED <<routerFrame, exc, parsed_args, calls, stdout>>

\* A loop that puts each ip_spec in front of the ones before it.
FixedIpAppended_Prepend(loc, ip_spec, last) ==
    LET ips == <<ip_spec>> \o loc["ips"]
        l1 == DictSet(DictSet(loc, "ips", ips), "index", loc["index"] + 1)
    IN  IF last
        THEN DictSet(l1, "router_dict",
                     DictSet(loc["router_dict"], "external_fixed_ips", ips))
        ELSE l1

\* After the body of the loop for one ip_spec: ips.append(ip_spec), and
\* after the last one router_dict['external_fixed_ips'] = ips.
FixedIpAppended(loc, ip_spec, last) ==
    LET ips == Append(loc["ips"], ip_spec)
        l1 == DictSet(DictSet(loc, "ips", ips), "index", loc["index"] + 1)
    IN  IF last
        THEN DictSet(l1, "router_dict",
                     DictSet(loc["router_dict"], "external_fixed_ips", ips))
        ELSE l1

\* One turn of the loop over parsed_args.fixed_ip. ip_spec is the dict of
\* the Namespace itself: the resolved ID is written into it.
GS_FixedIp ==
    /\ pc = "gs_fixed_ip"
    /\ LET i == locals["index"]
           ip_spec == parsed_args.fixed_ip[i]
           last == i = Len(parsed_args.fixed_ip)
           nextpc == IF last THEN "gs_call" ELSE "gs_fixed_ip"
       IN  IF HasSubnet(ip_spec)
           THEN \E o \in ResolveOutcomes(ip_spec["subnet_id"]) :
                  /\ calls' = Append(calls, ResolveCall(<<"subnet">>,
                                              ip_spec["subnet_id"], o))
                  /\ IF o.status = "ok"
                     THEN LET resolved == DictSet(ip_spec, "subnet_id", o.id)
                          IN  /\ parsed_args' =
                                   [parsed_args EXCEPT !.fixed_ip[i] = resolved]
                              /\ locals' = FixedIpAppended(locals, resolved,
                                                           last)
                              /\ pc' = nextpc
                              /\ UNCHANGED exc
                     ELSE /\ exc' = Raise(o.status)
                          /\ pc' = "raised"
                          /\ UNCHANGED <<parsed_args, locals>>
           ELSE /\ locals' = FixedIpAppended(locals, ip_spec, last)
                /\ pc' = nextpc
                /\ UNCHANGED <<exc, parsed_args, calls>>
    /\ UNCHANGED <<routerFrame, stdout>>

\* neutron_client.add_gateway_router(_router_id, router_dict)
GS_AddGateway ==
    /\ pc = "gs_call"
    /\ ApiStep("add_gateway_router", locals["_router_id"],
               locals["router_dict"], {<<>>}, "_", "gs_print")
    /\ UNCHANGED <<routerFrame, parsed_args, stdout>>

\* print(_('Set gateway for router %s') % parsed_args.router)
GS_Print ==
    /\ pc = "gs_print"
    /\ stdout' = Append(stdout, GatewaySetMessage(parsed_args, locals))
    /\ pc' = "returned"
    /\ UNCHANGED <<routerFrame, exc, parsed_args, locals, calls>>

\* CreateCommand: body = self.args2body(parsed_args)
CR_Args2Body ==
    /\ pc = "run"
    /\ rcmd = "router-create"
    /\ locals' = DictSet(locals, "body", CreateRouter_args2body(parsed_args))
    /\ pc' = "cr_call"
    /\ UNCHANGED <<routerFrame, exc, parsed_args, calls, stdout>>

\* CreateCommand: data = neutron_client.create_router(body)
CR_Create ==
    /\ pc = "cr_call"
    /\ ApiStep("create_router", <<>>, locals["body"], {<<>>}, "data",
               "returned")
    /\ UNCHANGED <<routerFrame, parsed_args, stdout>>

\* The router-update parser: argparse's error() when --route comes with
\* --no-routes, or the Namespace.
UR_ParseArgs ==
    /\ pc = "parse_args"
    /\ rcmd = "router-update"
    /\ IF UpdateParserRejects(sub_argv)
       THEN /\ exc' = SystemExit(ARGPARSE_ERROR_STATUS)
            /\ pc' = "rejected"
            /\ UNCHANGED parsed_args
       ELSE /\ parsed_args' = UpdateNamespace(sub_argv)
            /\ pc' = "run"
            /\ UNCHANGED exc
    /\ UNCHANGED <<routerFrame, locals, calls, stdout>>

\* UpdateCommand: body = self.args2body(parsed_args)
UR_Args2Body ==
    /\ pc = "run"
    /\ rcmd = "router-update"
    /\ locals' = DictSet(locals, "body", UpdateRouter_args2body(parsed_args))
    /\ pc' = "ur_resolve"
    /\ UNCHANGED <<routerFrame, exc, parsed_args, calls, stdout>>

\* UpdateCommand: the ID of the router to update
UR_Resolve ==
    /\ pc = "ur_resolve"
    /\ ResolveStep(<<"router">>, parsed_args["id"][1], "_id", "ur_call")
    /\ UNCHANGED <<routerFrame, parsed_args, stdout>>

\* UpdateCommand: neutron_client.update_router(_id, body)
UR_Update ==
    /\ pc = "ur_call"
    /\ ApiStep("update_router", locals["_id"], locals["body"], {<<>>},
               "_", "returned")
    /\ UNCHANGED <<routerFrame, parsed_args, stdout>>

NextRouter ==
    \/ RI_ParseInterface
    \/ RI_ResolveRouter
    \/ RI_ResolveInterface
    \/ RI_CallApi
    \/ RI_Print
    \/ GC_ResolveRouter
    \/ GC_RemoveGateway
    \/ GC_Print
    \/ GS_ResolveRouter
    \/ GS_ResolveNetwork
    \/ GS_RouterDict
    \/ GS_FixedIp
    \/ GS_AddGateway
    \/ GS_Print
    \/ CR_Args2Body
    \/ CR_Create
    \/ UR_ParseArgs
    \/ UR_Args2Body
    \/ UR_Resolve
    \/ UR_Update

SpecRouter == InitR /\ [][NextRouter]_vars


\* -------------------------------------------------- claims of SpecRouter
IsResolve(c) == c.op = "find_resourceid_by_name_or_id"
ActionOps == {"add_interface_router", "remove_interface_router",
              "add_gateway_router", "remove_gateway_router"}
IsAction(c) == c.op \in ActionOps

\* calls[j] is a resolution of token as a rtype that gave id.
ResolvedAt(j, rtype, token, id) ==
    /\ j \in DOMAIN calls
    /\ IsResolve(calls[j])
    /\ calls[j].rtype = rtype
    /\ calls[j].token = token
    /\ calls[j].status = "ok"
    /\ calls[j].id = id

\* The IDs of the successful resolutions of subnets, in order.
SubnetIdsResolved ==
    LET ok == SelectSeq(calls, LAMBDA c : IsResolve(c)
                                  /\ c.rtype = <<"subnet">>
                                  /\ c.status = "ok")
    IN  [i \in DOMAIN ok |-> ok[i].id]

\* The subnet_id of the fixed-IP specs of a gateway body that have one that
\* is not empty, in order.
SubnetIdsSent(router_dict) ==
    IF "external_fixed_ips" \in DOMAIN router_dict
    THEN LET with == SelectSeq(router_dict["external_fixed_ips"], HasSubnet)
         IN  [i \in DOMAIN with |-> with[i]["subnet_id"]]
    ELSE <<>>

C7_GatewayClear ==
    rcmd = "router-gateway-clear" =>
        /\ \A k \in DOMAIN calls :
              IsAction(calls[k]) =>
                 /\ k = 2
                 /\ calls[k].op = "remove_gateway_router"
                 /\ ResolvedAt(1, <<"router">>, parsed_args.router,
                               calls[k].target)
                 /\ (parsed_args.router = <<"myrouter">>
                     /\ calls[1].id = <<"id-123">>)
                       => calls[k].target = <<"id-123">>
        /\ stdout # <<>> =>
              /\ Len(calls) = 2
              /\ calls[2].op = "remove_gateway_router"
              /\ calls[2].status = "ok"
              /\ stdout = <<Msg("Removed gateway from router %s",
                                <<parsed_args.router>>)>>
        /\ pc = "returned" => stdout # <<>>

C7_Witness ==
    /\ rcmd = "router-gateway-clear"
    /\ pc = "returned"
    /\ parsed_args.router = <<"myrouter">>
    /\ calls[1].by = "name"
    /\ calls[1].id = <<"id-123">>
    /\ calls[2].op = "remove_gateway_router"
    /\ calls[2].target = <<"id-123">>
    /\ stdout = <<Msg("Removed gateway from router %s", <<<<"myrouter">>>>)>>

\* INTERFACE is 'subnet=S', 'port=P', or a token without '='.
InterfaceWellFormed(interface) ==
    \/ ~Contains(interface, "=")
    \/ /\ Len(interface) >= 2
       /\ interface[1] \in {"subnet", "port"}
       /\ interface[2] = "="

\* The kind and the reference of a well-formed INTERFACE.
InterfaceKind(interface) ==
    IF Contains(interface, "=") THEN <<interface[1]>> ELSE <<"subnet">>
InterfaceReference(interface) ==
    IF Contains(interface, "=")
    THEN SubSeq(interface, 3, Len(interface)) ELSE interface

\* C8: for a well-formed INTERFACE, router-interface-add and -delete make
\* their action call after the router and then the interface reference
\* (all that follows the first '=') are resolved, on the router ID, with
\* a body of the one key <kind>_id that holds the interface ID; after the
\* call returned they print their message once, router-interface-add with
\* the port_id the call returned.
C8_InterfaceBody ==
    (rcmd \in InterfaceCommands
     /\ InterfaceWellFormed(parsed_args.interface)) =>
        LET kind == InterfaceKind(parsed_args.interface)
            ref == InterfaceReference(parsed_args.interface)
        IN
        /\ \A k \in DOMAIN calls :
              IsAction(calls[k]) =>
                 /\ k = 3
                 /\ calls[k].op = IF rcmd = "router-interface-add"
                                  THEN "add_interface_router"
                                  ELSE "remove_interface_router"
                 /\ ResolvedAt(1, <<"router">>, parsed_args.router,
                               calls[k].target)
                 /\ ResolvedAt(2, kind, ref, calls[2].id)
                 /\ calls[k].body = ((kind \o <<"_id">>) :> calls[2].id)
        /\ \A k \in DOMAIN calls :
              (IsResolve(calls[k]) /\ k >= 2) =>
                 /\ k = 2
                 /\ calls[k].rtype = kind
                 /\ calls[k].token = ref
        /\ stdout # <<>> =>
              /\ Len(calls) = 3
              /\ calls[3].status = "ok"
              /\ stdout =
                   IF rcmd = "router-interface-add"
                   THEN <<Msg("Added interface %(port)s to router %(router)s.",
                              <<calls[3].result.port_id,
                                parsed_args.router>>)>>
                   ELSE <<Msg("Removed interface from router %s.",
                              <<parsed_args.router>>)>>
        /\ pc = "returned" => stdout # <<>>

\* router-interface-add myrouter subnet==: the reference is '=', the
\* interface is added and its port is printed.
C8_Witness ==
    /\ rcmd = "router-interface-add"
    /\ pc = "returned"
    /\ parsed_args.router = <<"myrouter">>
    /\ parsed_args.interface = <<"subnet", "=", "=">>
    /\ calls[2].token = <<"=">>
    /\ calls[3].op = "add_interface_router"
    /\ calls[3].target = calls[1].id
    /\ calls[3].body = (<<"subnet", "_id">> :> calls[2].id)
    /\ stdout = <<Msg("Added interface %(port)s to router %(router)s.",
                      <<<<"port-9">>, <<"myrouter">>>>)>>

\* INTERFACE is 'X=value' with X neither subnet nor port.
InterfaceRejected(interface) ==
    /\ Contains(interface, "=")
    /\ SplitFirst(interface, "=")[1] \notin {<<"subnet">>, <<"port">>}

\* C9 as stated: with an INTERFACE 'X=value' where X is neither subnet nor
\* port, router-interface-add and -delete resolve nothing as an X, make no
\* action call, and end with CommandError (or with the failure of the
\* resolution of the router, should the router be resolved first).
C9_AsStated ==
    (rcmd \in InterfaceCommands
     /\ InterfaceRejected(parsed_args.interface)) =>
        /\ \A k \in DOMAIN calls :
              /\ ~IsAction(calls[k])
              /\ IsResolve(calls[k]) =>
                    calls[k].rtype # SplitFirst(parsed_args.interface, "=")[1]
        /\ pc \in {"returned", "raised"} =>
              \/ exc = Raise("CommandError")
              \/ /\ Len(calls) = 1
                 /\ calls[1].rtype = <<"router">>
                 /\ calls[1].status # "ok"

\* The keys a router-create body can have besides name and admin_state_up.
CreateOptionalKeys == {"tenant_id", "distributed", "ha"}

\* C10: the body of router-create is {'router': B}; B has name, and
\* admin_state_up, true unless one of --admin-state-down and
\* --admin_state_down was given; it has tenant_id, distributed, ha and the
\* availability zone hints when the user gave them, with the value given,
\* and not otherwise; no entry of B is null; and this body is what
\* create_router is called with.
C10_CreateBody ==
    (rcmd = "router-create" /\ pc # "run") =>
        LET body == locals["body"]
            B == body["router"]
            opts == sub_argv
        IN
        /\ DOMAIN body = {"router"}
        /\ DOMAIN B \subseteq {"name", "admin_state_up",
                               "availability_zone_hints"}
                              \cup CreateOptionalKeys
        /\ "name" \in DOMAIN B /\ B["name"] = <<opts.name>>
        /\ "admin_state_up" \in DOMAIN B
        /\ B["admin_state_up"] = <<opts.admin_state_down = {}>>
        /\ \A f \in CreateOptionalKeys :
              /\ f \in DOMAIN B <=> opts[f] # <<>>
              /\ f \in DOMAIN B => B[f] = opts[f]
        /\ "availability_zone_hints" \in DOMAIN B
              <=> opts.availability_zone_hints # <<>>
        /\ "availability_zone_hints" \in DOMAIN B =>
              B["availability_zone_hints"] = <<opts.availability_zone_hints>>
        /\ \A f \in DOMAIN B : B[f] # <<>>
        /\ \A k \in DOMAIN calls :
              /\ calls[k].op = "create_router"
              /\ calls[k].body = body

\* router-create myrouter --ha: create_router is called with
\* {"router": {"name": "myrouter", "admin_state_up": true, "ha": true}}.
C10_Witness ==
    /\ rcmd = "router-create"
    /\ pc = "returned"
    /\ sub_argv = [name |-> <<"myrouter">>, admin_state_down |-> {},
                   tenant_id |-> <<>>, distributed |-> <<>>,
                   ha |-> <<TRUE>>, availability_zone_hints |-> <<>>]
    /\ Len(calls) = 1
    /\ calls[1].status = "ok"
    /\ calls[1].body =
          ("router" :> (("name" :> <<<<"myrouter">>>>)
                        @@ ("admin_state_up" :> <<TRUE>>)
                        @@ ("ha" :> <<TRUE>>)))

\* C11: router-update with --route and --no-routes together is rejected
\* by the parser and builds no body; otherwise the body is {'router': B}
\* where B has routes null with --no-routes, the route specs in the order
\* given with --route, and no routes otherwise; B has admin_state_up, name
\* and distributed with the value given when the user gave them and not
\* otherwise; nothing but routes is null, so B is empty without options;
\* and this body is what update_router is called with.
C11_UpdateBody ==
    rcmd = "router-update" =>
        LET opts == sub_argv IN
        /\ pc = "rejected" <=>
              (pc # "parse_args" /\ opts.no_routes /\ opts.routes # <<>>)
        /\ pc = "rejected" =>
              exc = SystemExit(ARGPARSE_ERROR_STATUS) /\ calls = <<>>
        /\ pc \notin {"parse_args", "rejected", "run"} =>
              LET body == locals["body"]
                  B == body["router"]
              IN
              /\ DOMAIN body = {"router"}
              /\ DOMAIN B \subseteq {"routes", "admin_state_up", "name",
                                     "distributed"}
              /\ "routes" \in DOMAIN B
                    <=> (opts.no_routes \/ opts.routes # <<>>)
              /\ opts.no_routes => B["routes"] = <<>>
              /\ opts.routes # <<>> => B["routes"] = <<opts.routes>>
              /\ "admin_state_up" \in DOMAIN B <=> opts.admin_state # <<>>
              /\ "admin_state_up" \in DOMAIN B =>
                    B["admin_state_up"] = opts.admin_state
              /\ "name" \in DOMAIN B <=> opts.name # <<>>
              /\ "name" \in DOMAIN B => B["name"] = opts.name
              /\ "distributed" \in DOMAIN B <=> opts.distributed # <<>>
              /\ "distributed" \in DOMAIN B =>
                    B["distributed"] = opts.distributed
              /\ \A f \in DOMAIN B \ {"routes"} : B[f] # <<>>
              /\ \A k \in DOMAIN calls :
                    calls[k].op = "update_router" => calls[k].body = body

\* router-update myrouter --route r1 --route r2: update_router is called
\* with the two routes in this order and nothing else.
C11_Witness ==
    /\ rcmd = "router-update"
    /\ pc = "returned"
    /\ sub_argv.name = <<>>
    /\ sub_argv.admin_state = <<>>
    /\ sub_argv.distributed = <<>>
    /\ Len(sub_argv.routes) = 2
    /\ sub_argv.routes[1] # sub_argv.routes[2]
    /\ calls[2].op = "update_router"
    /\ calls[2].body = ("router" :> ("routes" :> <<sub_argv.routes>>))

\* ------------------------------------------------- claims of SpecRetries
\* av[i] is -r/--retries and the argument after it is a negative or a
\* non-integer value.
BadRetriesAt(av, i) ==
    /\ i \in 1..(Len(av) - 1)
    /\ av[i] \in {"-r", "--retries"}
    /\ av[i + 1] \in {"-1", "x"}

\* The value after the last -r/--retries of av, 0 when there is none.
RetriesGiven(av) ==
    LET at == {i \in 1..(Len(av) - 1) : av[i] \in {"-r", "--retries"}} IN
    IF at = {} THEN 0
    ELSE IntLiterals[av[(CHOOSE i \in at : \A j \in at : j <= i) + 1]]

ActionCalls == {k \in DOMAIN calls : IsAction(calls[k])}

IsPrefix(s, t) == Len(s) <= Len(t) /\ SubSeq(t, 1, Len(s)) = s

\* What a run of router-gateway-set shows at every point: its calls are
\* resolutions and add_gateway_router, nothing that undoes one; a call
\* that failed is the last one, and the run ended with its exception.
NoUndoCall ==
    rcmd = "router-gateway-set" =>
        /\ \A k \in DOMAIN calls :
              /\ IsResolve(calls[k]) \/ calls[k].op = "add_gateway_router"
              /\ calls[k].status # "ok" =>
                    /\ k = Len(calls)
                    /\ pc = "raised"
                    /\ exc = Raise(calls[k].status)
        /\ pc = "raised" =>
              calls # <<>> /\ calls[Len(calls)].status # "ok"
        /\ pc = "raised" => stdout = <<>>

\* C14: router-gateway-set makes no compensating call: its calls are
\* resolutions and add_gateway_router only; when one fails it is the last
\* call and the run ends with its exception; and no step takes back or
\* changes a call made before.
C14_NoRollback ==
    /\ []NoUndoCall
    /\ [][rcmd = "router-gateway-set" => IsPrefix(calls, calls')]_vars

\* router-gateway-set with two --fixed-ip: the first subnet was resolved
\* and written into its spec, the second is not found; the run has ended
\* with the four calls made and the spec as it was rewritten.
C14_Witness ==
    /\ rcmd = "router-gateway-set"
    /\ pc = "raised"
    /\ Len(calls) = 4
    /\ calls[3].token = <<"s1">>
    /\ calls[3].id = <<"id-123">>
    /\ calls[4].status = "NotFound"
    /\ exc = Raise("NotFound")
    /\ sub_argv.fixed_ip[1]["subnet_id"] = <<"s1">>
    /\ parsed_args.fixed_ip[1]["subnet_id"] = <<"id-123">>

\* The value of subnet_id in a --fixed-ip spec is a reference to a subnet.
CarriesSubnet(ip_spec) ==
    "subnet_id" \in DOMAIN ip_spec /\ ip_spec["subnet_id"] # <<>>

\* The references of the command line, each with its resource type, in the
\* order run uses them.
References ==
    IF rcmd = "router-gateway-clear"
    THEN <<[rtype |-> <<"router">>, token |-> parsed_args.router]>>
    ELSE IF rcmd \in InterfaceCommands
    THEN <<[rtype |-> <<"router">>, token |-> parsed_args.router],
           [rtype |-> InterfaceOf(parsed_args.interface).resource,
            token |-> InterfaceOf(parsed_args.interface).value]>>
    ELSE LET with == SelectSeq(sub_argv.fixed_ip, CarriesSubnet) IN
         <<[rtype |-> <<"router">>, token |-> sub_argv.router],
           [rtype |-> <<"network">>, token |-> sub_argv.external_network]>>
         \o [i \in DOMAIN with |->
               [rtype |-> <<"subnet">>, token |-> with[i]["subnet_id"]]]

\* The resolutions made so far, each as its resource type and token.
Resolutions ==
    LET res == SelectSeq(calls, IsResolve) IN
    [i \in DOMAIN res |-> [rtype |-> res[i].rtype, token |-> res[i].token]]

\* C15: the resolutions a router action command has made are, in order,
\* the first references of its command line, one call for each: all of
\* them once the action call is made (router-gateway-clear 1,
\* router-interface-add/-delete 2, router-gateway-set 2 and one for each
\* --fixed-ip spec with a subnet_id), a token that occurs twice being
\* resolved twice.
C15_ResolutionPerReference ==
    rcmd \in InterfaceCommands
             \cup {"router-gateway-set", "router-gateway-clear"} =>
        /\ IsPrefix(Resolutions, References)
        /\ ActionCalls # {} => Resolutions = References

\* router-gateway-set with two --fixed-ip of the same subnet s1: s1 was
\* resolved twice, to two IDs, and both are in the body.
C15_Witness ==
    /\ rcmd = "router-gateway-set"
    /\ pc = "returned"
    /\ Len(calls) = 5
    /\ calls[3].token = <<"s1">> /\ calls[3].id = <<"id-123">>
    /\ calls[4].token = <<"s1">> /\ calls[4].id = <<"id-456">>
    /\ SubnetIdsSent(calls[5].body) = <<<<"id-123">>, <<"id-456">>>>

\* The positions of main's argument vector that hold a known subcommand
\* name, -h/--help, and the word help; FirstOf is the least of a set of
\* positions.
KnownAt == {i \in DOMAIN argv0 :
               argv0[i] \in DOMAIN CommandTable(commands, api_version)}
HelpOptionAt == {i \in DOMAIN argv0 : argv0[i] \in {"-h", "--help"}} \ KnownAt
HelpWordAt == {i \in DOMAIN argv0 : argv0[i] = "help"} \ KnownAt
FirstOf(S) == CHOOSE i \in S : \A j \in S : i <= j

\* bash-completion stands in the vector with no help before it.
CompletionAsked ==
    \E i \in DOMAIN argv0 :
        argv0[i] = "bash-completion" /\ \A j \in HelpWordAt : j > i

\* The vector the statement of C17 hands to the global parser.
StatedArgv ==
    IF KnownAt # {} /\ HelpOptionAt # {}
       /\ FirstOf(HelpOptionAt) > FirstOf(KnownAt)
    THEN <<"help", argv0[FirstOf(KnownAt)]>>
    ELSE IF HelpWordAt # {} /\ KnownAt = {}
    THEN [argv0 EXCEPT ![FirstOf(HelpWordAt)] = "--help"]
    ELSE argv0

\* The original statement of C17: whatever the vector, run comes to the
\* global parser, with the vector rewritten as stated.
C17_AsStated ==
    pc # "run" =>
        /\ pc = "parse" \/ ~Occurred("_bash_completion")
        /\ argv = StatedArgv

\* C17 (amended): when no bash-completion argument ends run at the loop,
\* the vector the global parser is given is ['help', <subcommand>] when
\* the first -h/--help stands after the first known subcommand name, the
\* vector with its first help replaced by --help when help occurs and no
\* known subcommand name does, and the vector unchanged in every other
\* case; when a bash-completion argument ends run, the parser is given
\* nothing.
C17_HelpRewrite ==
    /\ pc = "parse" => ~CompletionAsked /\ argv = StatedArgv
    /\ (~CompletionAsked /\ pc # "run") => argv = StatedArgv
    /\ (CompletionAsked /\ pc # "run") =>
          pc # "parse" /\ Occurred("_bash_completion")

\* -h after the subcommand and its argument: the parser is about to get
\* ['help', 'router-gateway-clear'].
C17_Witness ==
    /\ pc = "parse"
    /\ argv0 = <<"router-gateway-clear", "myrouter", "-h">>
    /\ argv = <<"help", "router-gateway-clear">>

\* C18: when bash-completion stands in the argument vector with no help
\* (other than as a known subcommand name) before it, run prints the
\* completion listing and returns 0; no global option is parsed, no
\* command looked up, authenticate_user is not called and no command
\* runs, whatever follows or precedes the argument; the process ends with
\* status 0.
C18_BashCompletion ==
    (CompletionAsked /\ pc # "run") =>
        /\ stdout = <<Event("completion", None)>>
        /\ trace = <<Event("_bash_completion", None)>>
        /\ stderr = <<>>
        /\ ret = IntV(0)
        /\ argv = argv0
        /\ cmd_name = None
        /\ options = None
        /\ client_manager = NoClient
        /\ Exited => exit_code = IntV(0)

\* bash-completion after a subcommand and before -h: the listing was
\* printed and the process ended with status 0.
C18_Witness ==
    /\ Exited
    /\ argv0 = <<"router-gateway-clear", "bash-completion", "-h">>
    /\ stdout = <<Event("completion", None)>>
    /\ exit_code = IntV(0)

\* How many arguments main is called with where the free-form values of a
\* command are looked at.
MaxValueArgs == 4

\* Command lines with arguments a command's parser does not know, and
\* with '--'.
ValueTokens == {"router-gateway-clear", "subnet-create", "net1", "--foo",
                "10.0.0.0/24", "--"}
InitValues == InitWith(SeqsUpTo(ValueTokens, MaxValueArgs))
SpecValues == InitValues /\ [][Next]_vars

\* The position of the first '--' in sub_argv, 0 when there is none, and
\* what the parser leaves unrecognised of sub_argv as a whole.
FirstDash ==
    LET at == {i \in DOMAIN sub_argv : sub_argv[i] = "--"} IN
    IF at = {} THEN 0 ELSE FirstOf(at)
Unrecognised == CmdParseKnownArgs(cmd_name, sub_argv)._values_specs

\* subnet-create got no CIDR from its parser, and an unrecognised argument
\* is a valid CIDR.
CidrRecovered ==
    /\ cmd_name = "subnet-create"
    /\ CmdParseKnownArgs(cmd_name, sub_argv).known_args.cidr = None
    /\ \E i \in DOMAIN Unrecognised : is_valid_cidr(Unrecognised[i])

\* The part of C19 about '--': the parser gets what is before the first
\* '--', values_specs is the rest, the '--' included.
ValuesAfterDash ==
    FirstDash > 0 =>
        /\ locals["_argv"] = SubSeq(sub_argv, 1, FirstDash - 1)
        /\ values_specs = SubSeq(sub_argv, FirstDash, Len(sub_argv))

\* The original statement of C19: with '--' as above; with no '--',
\* values_specs is the list the parser did not recognise.
C19_AsStated ==
    pc = "cmd_run" =>
        /\ ValuesAfterDash
        /\ FirstDash = 0 => values_specs = Unrecognised

\* C19 (amended): with '--' as stated; with no '--', values_specs is the
\* list of arguments the parser did not recognise, in their order, except
\* for subnet-create when its parser got no CIDR and a valid CIDR is among
\* them: the first such argument becomes the cidr and values_specs is the
\* list without it.
C19_ValuesSpecs ==
    pc = "cmd_run" =>
        /\ ValuesAfterDash
        /\ (FirstDash = 0 /\ ~CidrRecovered) => values_specs = Unrecognised
        /\ (FirstDash = 0 /\ CidrRecovered) =>
              \E i \in DOMAIN Unrecognised :
                  /\ is_valid_cidr(Unrecognised[i])
                  /\ \A j \in 1..(i - 1) : ~is_valid_cidr(Unrecognised[j])
                  /\ parsed_args.cidr = Unrecognised[i]
                  /\ values_specs = SubSeq(Unrecognised, 1, i - 1)
                        \o SubSeq(Unrecognised, i + 1, Len(Unrecognised))

\* router-gateway-clear net1 -- --foo: the parser got ['net1'] and
\* values_specs is ['--', '--foo'].
C19_Witness ==
    /\ pc = "cmd_run"
    /\ cmd_name = "router-gateway-clear"
    /\ sub_argv = <<"net1", "--", "--foo">>
    /\ locals["_argv"] = <<"net1">>
    /\ parsed_args.args = <<"net1">>
    /\ values_specs = <<"--", "--foo">>

\* ------------------------------------------------------------------------
\* The global identity options: their defaults from the environment and
\* their values from the command line.
\* ------------------------------------------------------------------------

\* How many options one command line gives.
MaxFlags == 2

\* Python values of the option Namespace.
Str(s) == <<"str", s>>
Float(s) == <<"float", s>>
Bool(b) == <<"bool", b>>
NoValue == <<"None">>

\* The environments a process can start in: a variable is not set, empty,
\* or holds text.
EnvVars == {"OS_NETWORK_SERVICE_TYPE", "OS_AUTH_URL", "OS_NETWORK_TIMEOUT",
            "NEUTRONCLIENT_INSECURE"}
EnvTexts(v) == IF v = "OS_NETWORK_TIMEOUT" THEN {"", "30", "x"} ELSE {"", "x"}
Environments ==
    UNION {{e \in [set -> {"", "30", "x"}] : \A v \in set : e[v] \in EnvTexts(v)} :
             set \in SUBSET EnvVars}

\* An env that takes an empty variable for a defined one.
env_EmptyDefined(_vars, kwargs) ==
    LET hits == {i \in DOMAIN _vars : _vars[i] \in DOMAIN environ} IN
    IF hits = {}
    THEN IF "default" \in DOMAIN kwargs THEN kwargs["default"] ELSE Str("")
    ELSE Str(environ[_vars[CHOOSE i \in hits : \A j \in hits : i <= j]])

\* env(*_vars, **kwargs): the first of the variables whose value is set
\* and not empty, or kwargs.get('default', '').
env(_vars, kwargs) ==
    LET hits == {i \in DOMAIN _vars :
                    /\ _vars[i] \in DOMAIN environ
                    /\ environ[_vars[i]] # ""} IN
    IF hits = {}
    THEN IF "default" \in DOMAIN kwargs THEN kwargs["default"] ELSE Str("")
    ELSE Str(environ[_vars[CHOOSE i \in hits : \A j \in hits : i <= j]])

\* The arguments _append_global_identity_args adds, one of each shape, in
\* the order it adds them, with the default env gives at that moment.
IdentityArguments ==
    << [flag |-> "--os-service-type", dest |-> "os_service_type",
        action |-> "store", type |-> "str",
        default |-> env(<<"OS_NETWORK_SERVICE_TYPE">>,
                        "default" :> Str("network"))],
       [flag |-> "--os-auth-url", dest |-> "os_auth_url",
        action |-> "store", type |-> "str",
        default |-> env(<<"OS_AUTH_URL">>, <<>>)],
       [flag |-> "--os_auth_url", dest |-> "os_auth_url",
        action |-> "store", type |-> "str", default |-> NoValue],
       [flag |-> "--http-timeout", dest |-> "http_timeout",
        action |-> "store", type |-> "float",
        default |-> env(<<"OS_NETWORK_TIMEOUT">>, "default" :> NoValue)],
       [flag |-> "--insecure", dest |-> "insecure",
        action |-> "store_true", type |-> "str",
        default |-> env(<<"NEUTRONCLIENT_INSECURE">>,
                        "default" :> Bool("False"))] >>

\* The texts float() reads, with the number each is.
FloatLiterals == ("30" :> "30.0") @@ ("2.5" :> "2.5")

\* argparse's _get_value: the type function of the argument on a string;
\* ok is FALSE when the type function raises ValueError.
GetValue(type, text) ==
    IF type = "float"
    THEN IF text \in DOMAIN FloatLiterals
         THEN [ok |-> TRUE, value |-> Float(FloatLiterals[text])]
         ELSE [ok |-> FALSE, value |-> NoValue]
    ELSE [ok |-> TRUE, value |-> Str(text)]

\* The uses of an option on a command line, and the command lines main is
\* called with here.
FlagUses == {<<"--os-service-type", "y">>, <<"--os-auth-url", "x">>,
             <<"--os_auth_url", "y">>, <<"--http-timeout", "2.5">>,
             <<"--http-timeout", "x">>, <<"--insecure">>}
RECURSIVE Flatten(_)
Flatten(ss) == IF ss = <<>> THEN <<>> ELSE Head(ss) \o Flatten(Tail(ss))
FlagVectors == {Flatten(u) : u \in SeqsUpTo(FlagUses, MaxFlags)}

\* parse_known_args at its start: each dest gets the default of the first
\* argument added with it.
NamespaceDefaults(args) ==
    [d \in {args[i].dest : i \in DOMAIN args} |->
        args[CHOOSE i \in DOMAIN args :
                /\ args[i].dest = d
                /\ \A j \in DOMAIN args : args[j].dest = d => i <= j].default]

\* parse_known_args over the option strings: each option stores its value
\* as its type function reads it, the last use standing; seen holds the
\* arguments used.
RECURSIVE ConsumeOptionals(_, _, _, _)
ConsumeOptionals(args, arg_strings, namespace, seen) ==
    IF arg_strings = <<>>
    THEN [ok |-> TRUE, namespace |-> namespace, seen |-> seen]
    ELSE LET i == CHOOSE k \in DOMAIN args : args[k].flag = Head(arg_strings)
             a == args[i]
         IN  IF a.action = "store_true"
             THEN ConsumeOptionals(args, Tail(arg_strings),
                                   DictSet(namespace, a.dest, Bool("True")),
                                   seen \cup {i})
             ELSE IF Len(arg_strings) < 2
             THEN [ok |-> FALSE, namespace |-> namespace, seen |-> seen]
             ELSE LET v == GetValue(a.type, arg_strings[2]) IN
                  IF ~v.ok
                  THEN [ok |-> FALSE, namespace |-> namespace, seen |-> seen]
                  ELSE ConsumeOptionals(args,
                                        SubSeq(arg_strings, 3, Len(arg_strings)),
                                        DictSet(namespace, a.dest, v.value),
                                        seen \cup {i})

\* parse_known_args at its end: an argument that was not used and whose
\* default is a string still in the Namespace has the default read by its
\* type function.
RECURSIVE ConvertDefaults(_, _, _, _)
ConvertDefaults(args, i, namespace, seen) ==
    IF i > Len(args) THEN [ok |-> TRUE, namespace |-> namespace]
    ELSE LET a == args[i] IN
         IF /\ i \notin seen
            /\ a.default[1] = "str"
            /\ namespace[a.dest] = a.default
         THEN LET v == GetValue(a.type, a.default[2]) IN
              IF ~v.ok THEN [ok |-> FALSE, namespace |-> namespace]
              ELSE ConvertDefaults(args, i + 1,
                                   DictSet(namespace, a.dest, v.value), seen)
         ELSE ConvertDefaults(args, i + 1, namespace, seen)

\* main's argument vector and the environment of the process.
InitEnv ==
    LET sh == NeutronShellInit(<<>>) IN
    /\ commands = sh.commands
    /\ command_manager = sh.command_manager
    /\ api_version = NEUTRON_API_VERSION
    /\ argv0 \in FlagVectors
    /\ argv = argv0
    /\ options = None
    /\ remainder = <<>>
    /\ interactive_mode = FALSE
    /\ cmd_name = None
    /\ sub_argv = <<>>
    /\ exc = NoException
    /\ ret = NoInt
    /\ exit_code = NoInt
    /\ extensions = <<>>
    /\ registered = <<>>
    /\ rcmd = None
    /\ parsed_args = <<>>
    /\ locals = <<>>
    /\ calls = <<>>
    /\ client_manager = NoClient
    /\ values_specs = <<>>
    /\ environ \in Environments
    /\ parser = <<>>
    /\ router_info = <<>>
    /\ pc = "build_option_parser"
    /\ trace = <<>>
    /\ stdout = <<>>
    /\ stderr = <<>>

\* What the two steps below leave alone.
envFrame == <<commands, command_manager, api_version, argv0, argv,
              remainder, interactive_mode, cmd_name, sub_argv, ret,
              exit_code, initVars, routerVars, client_manager, values_specs,
              environ, router_info, trace, stdout>>

\* build_option_parser: self._append_global_identity_args(parser); the
\* defaults are taken from the environment here.
BuildOptionParser ==
    /\ pc = "build_option_parser"
    /\ parser' = IdentityArguments
    /\ pc' = "parse_known_args"
    /\ UNCHANGED <<options, exc, stderr, envFrame>>

\* run: self.options, remainder = self.parser.parse_known_args(argv); a
\* value its type function does not read is parser.error, exit status 2.
ParseKnownArgs ==
    /\ pc = "parse_known_args"
    /\ LET c == ConsumeOptionals(parser, argv, NamespaceDefaults(parser), {})
           d == ConvertDefaults(parser, 1, c.namespace, c.seen)
       IN  IF c.ok /\ d.ok
           THEN /\ options' = d.namespace
                /\ pc' = "parsed"
                /\ UNCHANGED <<exc, stderr>>
           ELSE /\ stderr' = Append(stderr, Event("usage", "neutron"))
                /\ exc' = SystemExit(ARGPARSE_ERROR_STATUS)
                /\ pc' = "parser_error"
                /\ UNCHANGED options
    /\ UNCHANGED <<parser, envFrame>>

NextEnv == BuildOptionParser \/ ParseKnownArgs

SpecEnv == InitEnv /\ [][NextEnv]_vars

\* The options of the claim: each with its flags, the environment
\* variables listed for it, its declared default ('' when none is), and
\* how its value is read.
EnvBacked ==
    ("os_service_type" :> [flags |-> {"--os-service-type"},
                           vars |-> <<"OS_NETWORK_SERVICE_TYPE">>,
                           default |-> Str("network"), type |-> "str"])
    @@ ("os_auth_url" :> [flags |-> {"--os-auth-url", "--os_auth_url"},
                          vars |-> <<"OS_AUTH_URL">>,
                          default |-> Str(""), type |-> "str"])
    @@ ("http_timeout" :> [flags |-> {"--http-timeout"},
                           vars |-> <<"OS_NETWORK_TIMEOUT">>,
                           default |-> NoValue, type |-> "float"])
    @@ ("insecure" :> [flags |-> {"--insecure"},
                       vars |-> <<"NEUTRONCLIENT_INSECURE">>,
                       default |-> Bool("False"), type |-> "flag"])

\* A text as the value of an option of the given type; Unreadable when the
\* text is no number for a float option.
Unreadable == <<"unreadable">>
ReadAs(type, text) ==
    IF type = "float"
    THEN IF text \in DOMAIN FloatLiterals
         THEN Float(FloatLiterals[text]) ELSE Unreadable
    ELSE Str(text)

\* Where the flags of an option stand on the command line, and the
\* variables of it that are defined and not empty.
FlagAt(d) == {i \in DOMAIN argv0 : argv0[i] \in EnvBacked[d].flags}
DefinedVars(d) ==
    {i \in DOMAIN EnvBacked[d].vars :
        /\ EnvBacked[d].vars[i] \in DOMAIN environ
        /\ environ[EnvBacked[d].vars[i]] # ""}

\* The value the precedence rule gives an option: the flag's (the last
\* one given), else the first defined variable's, else the default.
Effective(d) ==
    LET o == EnvBacked[d] IN
    IF FlagAt(d) # {}
    THEN LET i == CHOOSE k \in FlagAt(d) : \A j \in FlagAt(d) : j <= k IN
         IF o.type = "flag" THEN Bool("True") ELSE ReadAs(o.type, argv0[i + 1])
    ELSE IF DefinedVars(d) # {}
    THEN LET i == CHOOSE k \in DefinedVars(d) :
                      \A j \in DefinedVars(d) : k <= j
         IN  ReadAs(o.type, environ[o.vars[i]])
    ELSE o.default

\* A flag of the command line has a value that cannot be read.
BadFlagValue ==
    \E d \in DOMAIN EnvBacked : \E i \in FlagAt(d) :
        EnvBacked[d].type # "flag"
        /\ ReadAs(EnvBacked[d].type, argv0[i + 1]) = Unreadable

GatewayInfos ==
    LET nets == {<< <<"network_id", <<"str", n>> >> >> : n \in {"net1", "net2"}}
        snats == {<<>>} \cup {<< <<"enable_snat", <<"bool", b>> >> >> :
                                b \in {"true", "false"}}
        ip(a) == <<"obj", << <<"ip_address", <<"str", a>> >> >> >>
        ips == {<<>>} \cup
               {<< <<"external_fixed_ips", <<"list", l>> >> >> :
                  l \in SeqsUpTo({ip("10.0.0.5"), ip("10.0.0.6")},
                                 MaxFixedIps)}
    IN  {<<"obj", n \o s \o i>> : n \in nets, s \in snats, i \in ips}

\* The routers a formatter is handed: a dict, <<"dict", d>>, without the
\* field, with a gateway-info object, with null or with a value of another
\* type in it; or no dict at all.
RouterRecords ==
    {<<"None">>}
    \cup {<<"dict", ("name" :> <<"str", n>>)>> : n \in {"r1", "r2"}}
    \cup {<<"dict", ("name" :> <<"str", n>>)
                    @@ ("external_gateway_info" :> v)>> :
            n \in {"r1", "r2"},
            v \in GatewayInfos \cup {<<"null">>, <<"str", "x">>, <<"num", "5">>}}

\* jsonutils.dumps of a JSON value, as the symbols of the text: on one
\* line, ', ' between items and ': ' after a key.
RECURSIVE Dumps(_)
RECURSIVE DumpsItems(_, _)
DumpsItems(kind, items) ==
    IF items = <<>> THEN <<>>
    ELSE (IF kind = "obj"
          THEN <<"\"", Head(items)[1], "\"", ": ">> \o Dumps(Head(items)[2])
          ELSE Dumps(Head(items)))
         \o (IF Len(items) > 1 THEN <<", ">> ELSE <<>>)
         \o DumpsItems(kind, Tail(items))
Dumps(v) ==
    CASE v[1] = "null" -> <<"null">>
      [] v[1] \in {"bool", "num"} -> <<v[2]>>
      [] v[1] = "str" -> <<"\"", v[2], "\"">>
      [] v[1] = "list" -> <<"[">> \o DumpsItems("list", v[2]) \o <<"]">>
      [] v[1] = "obj" -> <<"{">> \o DumpsItems("obj", v[2]) \o <<"}">>

\* _format_external_gateway_info: router['external_gateway_info'] raises
\* TypeError when router is no dict and KeyError when the field is not in
\* it, and '' is returned; otherwise the value goes through dumps.
_format_external_gateway_info(r) ==
    IF r[1] # "dict" THEN <<>>
    ELSE IF "external_gateway_info" \notin DOMAIN r[2] THEN <<>>
    ELSE Dumps(r[2]["external_gateway_info"])

\* A formatter call on one router of a listing.
InitFormat ==
    LET sh == NeutronShellInit(<<>>) IN
    /\ commands = sh.commands
    /\ command_manager = sh.command_manager
    /\ api_version = NEUTRON_API_VERSION
    /\ argv0 = <<>>
    /\ argv = argv0
    /\ options = None
    /\ remainder = <<>>
    /\ interactive_mode = FALSE
    /\ cmd_name = None
    /\ sub_argv = <<>>
    /\ exc = NoException
    /\ ret = NoInt
    /\ exit_code = NoInt
    /\ extensions = <<>>
    /\ registered = <<>>
    /\ rcmd = None
    /\ parsed_args = <<>>
    /\ locals = <<>>
    /\ calls = <<>>
    /\ client_manager = NoClient
    /\ values_specs = <<>>
    /\ environ = <<>>
    /\ parser = <<>>
    /\ router_info \in RouterRecords
    /\ pc = "format"
    /\ trace = <<>>
    /\ stdout = <<>>
    /\ stderr = <<>>

\* The formatter returns.
FormatExternalGatewayInfo ==
    /\ pc = "format"
    /\ ret' = _format_external_gateway_info(router_info)
    /\ pc' = "formatted"
    /\ UNCHANGED <<commands, command_manager, api_version, argv0, argv,
                   options, remainder, interactive_mode, cmd_name, sub_argv,
                   exc, exit_code, initVars, routerVars, appVars, trace,
                   stdout, stderr>>

NextFormat == FormatExternalGatewayInfo

SpecFormat == InitFormat /\ [][NextFormat]_vars

\* The router has the field, with a gateway-info object in it.
HasGatewayInfo ==
    /\ router_info[1] = "dict"
    /\ "external_gateway_info" \in DOMAIN router_info[2]
    /\ router_info[2]["external_gateway_info"][1] = "obj"

\* C20 as stated: the formatter returns the JSON text of the gateway-info
\* object, on one line, and the empty string when the field is absent or
\* holds anything else, null included.
C20_AsStated ==
    pc = "formatted" =>
        IF HasGatewayInfo
        THEN /\ ret = Dumps(router_info[2]["external_gateway_info"])
             /\ ret[1] = "{" /\ ret[Len(ret)] = "}"
        ELSE ret = <<>>

\* The exception classes derived from Exception that were raised, and
\* whether an except clause of run or run_subcommand has dealt with the
\* one in flight.
ErrorKinds ==
    {trace[i].arg : i \in {j \in DOMAIN trace :
        /\ trace[j].ev = "raise"
        /\ trace[j].arg \notin {"KeyboardInterrupt", "SystemExit"}}}
ErrorHandled == ErrorRaised /\ pc \notin {"run_except", "subcommand_except"}

RunsAt == {i \in DOMAIN trace : trace[i].ev = "cmd.run"}

\* Nothing went wrong on the way: no exception, no rejection by a parser.
NothingRaised == ~Occurred("raise") /\ ~Occurred("parser.error")

\* The original statement of C22, first half: when arguments remain after
\* the global options, the process has run exactly one subcommand when it
\* ends.
C22_AsStated ==
    (Exited /\ remainder # <<>>) => Cardinality(RunsAt) = 1

\* C22 (amended): when arguments remain after the global options, run
\* calls the run of at most one command, the located one: exactly once
\* when the command is found, authentication (not needed for help)
\* succeeds and the command's parser accepts its arguments, and run then
\* returns what that call returned; not at all otherwise. When no argument
\* remains, the shell authenticates before it enters the interactive
\* loop, runs no subcommand of its own, and in the loop a line's
\* subcommand is done before the next line is read.
C22_OneSubcommand ==
    /\ remainder # <<>> =>
          /\ Cardinality(RunsAt) <= 1
          /\ \A i \in RunsAt : trace[i].arg = cmd_name
          /\ ~Occurred("interact") /\ ~Occurred("interact.line")
          /\ (pc \in {"main_return", "exited"} /\ NothingRaised) =>
                /\ Cardinality(RunsAt) = 1
                /\ ret = CmdRunReturn(cmd_name)
          /\ (Exited /\ ~NothingRaised /\ Cardinality(RunsAt) = 1) =>
                trace[Len(trace)].ev = "raise" /\ Len(trace) - 1 \in RunsAt
    /\ interactive_mode =>
          /\ ~Occurred("cmd_factory")
          /\ pc \in {"interact", "interact_cmd"} =>
                Happened("authenticate_user", "completed")
          /\ \A i \in DOMAIN trace : trace[i].ev = "interact.line" =>
                /\ Happened("authenticate_user", "completed")
                /\ IF i = Len(trace) THEN pc = "interact_cmd"
                   ELSE trace[i + 1] = Event("cmd.run", trace[i].arg)
          /\ \A i \in RunsAt :
                i > 1 /\ trace[i - 1] = Event("interact.line", trace[i].arg)

\* router-gateway-clear myrouter ran once and returned; the process ended
\* with its result.
C22_Witness ==
    /\ Exited
    /\ remainder = <<"router-gateway-clear", "myrouter">>
    /\ NothingRaised
    /\ RunsAt = {Len(trace)}
    /\ exit_code = IntV(0)

\* The router action commands.
RouterActionCommands ==
    InterfaceCommands \cup {"router-gateway-set", "router-gateway-clear"}

\* C23: in a router action command the action call comes after the
\* resolution of every reference of the command line, all of them
\* successful; once a resolution has failed there is no action call in
\* the invocation, before or after.
C23_ResolveBeforeAction ==
    rcmd \in RouterActionCommands =>
        /\ \A k \in ActionCalls :
              /\ \A j \in DOMAIN calls :
                    IsResolve(calls[j]) => j < k /\ calls[j].status = "ok"
              /\ Resolutions = References
        /\ (\E j \in DOMAIN calls :
               IsResolve(calls[j]) /\ calls[j].status # "ok") =>
              /\ ActionCalls = {}
              /\ pc = "raised"

\* router-interface-add: the router was resolved, the interface was not
\* found; the run ended with no action call.
C23_Witness ==
    /\ rcmd = "router-interface-add"
    /\ pc = "raised"
    /\ Len(calls) = 2
    /\ calls[1].status = "ok"
    /\ IsResolve(calls[2]) /\ calls[2].status = "NotFound"
    /\ ActionCalls = {}

\* C24: a router action command writes at most one line to standard
\* output, its success message, and only when its action call has
\* returned without error, as the last call of the run; when a resolution
\* or the action call raised, nothing is written.
C24_MessageAfterSuccess ==
    rcmd \in RouterActionCommands =>
        /\ Len(stdout) <= 1
        /\ stdout # <<>> =>
              /\ pc = "returned"
              /\ calls # <<>>
              /\ IsAction(calls[Len(calls)])
              /\ \A k \in DOMAIN calls : calls[k].status = "ok"
              /\ stdout[1].args[Len(stdout[1].args)] = parsed_args.router
        /\ (pc = "raised" \/ \E k \in DOMAIN calls : calls[k].status # "ok")
              => stdout = <<>>
        /\ pc = "returned" => Len(stdout) = 1

\* router-gateway-set: both resolutions and add_gateway_router returned
\* and the message was printed once.
C24_Witness ==
    /\ rcmd = "router-gateway-set"
    /\ pc = "returned"
    /\ Len(calls) = 3
    /\ calls[3].op = "add_gateway_router" /\ calls[3].status = "ok"
    /\ stdout = <<GatewaySetMessage(parsed_args, locals)>>

\* The positions of the trace where initialize_app failed: the command
\* lookup or authenticate_user raised.
InitFailedAt ==
    {i \in DOMAIN trace :
        /\ i > 1
        /\ trace[i].ev = "raise"
        /\ trace[i - 1] \in {Event("authenticate_user", "called"),
                             Event("find_command", None)}}

\* C25: when the command lookup or authenticate_user raises in
\* initialize_app, nothing follows it in run: no command is instantiated
\* or run, no interactive loop entered, no client manager made. An
\* exception derived from Exception is turned into the return value 1
\* below the debug level and re-raised at or above it, status 1 both
\* ways; an interrupt leaves run as it is, status 130.
C25_InitFailure ==
    InitFailedAt # {} =>
        /\ InitFailedAt = {Len(trace)}
        /\ ~Occurred("cmd_factory") /\ ~Occurred("cmd.run")
        /\ ~Occurred("interact") /\ ~Occurred("interact.line")
        /\ pc \in {"run_except", "main_except", "main_return", "exited"}
        /\ client_manager = NoClient
        /\ values_specs = <<>>
        /\ LET k == trace[Len(trace)].arg IN
           IF k = "KeyboardInterrupt"
           THEN /\ exc = Raise(k)
                /\ stderr # <<>> => stderr[1].ev \notin {"log.error", "log.exception"}
                /\ Exited => exit_code = IntV(130)
           ELSE /\ pc # "run_except" =>
                     IF options.verbose_level < DEBUG_LEVEL
                     THEN ret = IntV(1) /\ exc = NoException
                     ELSE exc = Raise(k)
                /\ Exited => exit_code = IntV(1)

\* authenticate_user raised for router-gateway-clear myrouter: run
\* returned 1, and no command was instantiated.
C25_Witness ==
    /\ Exited
    /\ argv0 = <<"router-gateway-clear", "myrouter">>
    /\ Happened("authenticate_user", "called")
    /\ Happened("raise", "NeutronClientException")
    /\ ~Occurred("cmd_factory")
    /\ ret = IntV(1)
    /\ exit_code = IntV(1)

\* The --fixed-ip specs of the command line, and for the i-th of them the
\* position among the calls of the resolution of its subnet: after the
\* router and the network, one for each spec before it that carries a
\* subnet.
GivenFixedIps == sub_argv.fixed_ip
SubnetCallOf(i) ==
    2 + Cardinality({j \in 1..i : CarriesSubnet(GivenFixedIps[j])})

\* C26: the body of add_gateway_router has network_id, the ID the external
\* network was resolved to; enable_snat, false, exactly when --disable-snat
\* was given; external_fixed_ips exactly when a --fixed-ip was given: the
\* specs in the order given, each with the keys it had, ip_address as it
\* was, and subnet_id the ID its subnet was resolved to (as it was when it
\* is empty); and nothing else.
C26_GatewayBody ==
    rcmd = "router-gateway-set" =>
        \A k \in ActionCalls :
            LET body == calls[k].body IN
            /\ DOMAIN body \subseteq
                  {"network_id", "enable_snat", "external_fixed_ips"}
            /\ "network_id" \in DOMAIN body
            /\ ResolvedAt(2, <<"network">>, sub_argv.external_network,
                          body["network_id"])
            /\ "enable_snat" \in DOMAIN body <=> sub_argv.disable_snat
            /\ "enable_snat" \in DOMAIN body => body["enable_snat"] = FALSE
            /\ "external_fixed_ips" \in DOMAIN body <=> GivenFixedIps # <<>>
            /\ "external_fixed_ips" \in DOMAIN body =>
                  LET sent == body["external_fixed_ips"] IN
                  /\ Len(sent) = Len(GivenFixedIps)
                  /\ \A i \in DOMAIN GivenFixedIps :
                        /\ DOMAIN sent[i] = DOMAIN GivenFixedIps[i]
                        /\ "ip_address" \in DOMAIN sent[i] =>
                              sent[i]["ip_address"]
                                 = GivenFixedIps[i]["ip_address"]
                        /\ "subnet_id" \in DOMAIN sent[i] =>
                              IF CarriesSubnet(GivenFixedIps[i])
                              THEN ResolvedAt(SubnetCallOf(i), <<"subnet">>,
                                              GivenFixedIps[i]["subnet_id"],
                                              sent[i]["subnet_id"])
                              ELSE sent[i]["subnet_id"] = <<>>

\* --disable-snat, --fixed-ip ip_address=10.0.0.5 and --fixed-ip
\* subnet_id=s1: the body has enable_snat false and the two specs in that
\* order, the second with the ID of s1.
C26_Witness ==
    /\ rcmd = "router-gateway-set"
    /\ pc = "returned"
    /\ sub_argv.disable_snat
    /\ sub_argv.fixed_ip = <<("ip_address" :> <<"10.0.0.5">>),
                             ("subnet_id" :> <<"s1">>)>>
    /\ Len(calls) = 4
    /\ calls[3].id = <<"id-123">>
    /\ calls[4].body["enable_snat"] = FALSE
    /\ calls[4].body["external_fixed_ips"]
          = <<("ip_address" :> <<"10.0.0.5">>),
              ("subnet_id" :> <<"id-123">>)>>

\* What the parser of the command made of the arguments it was given: the
\* parsed arguments and the unrecognised ones, and the positions of the
\* valid CIDRs among the latter.
Parsed == CmdParseKnownArgs(cmd_name, locals["_argv"])
CidrsAt ==
    {i \in DOMAIN Parsed._values_specs :
        is_valid_cidr(Parsed._values_specs[i])}

====
